---- MODULE Spec2Model ----
(***************************************************************************)
(* A model of the assembly engine of scikit-fem:                           *)
(*   - the topology builder of skfem/mesh/mesh.py (build_entities,         *)
(*     build_inverse, the lazily cached facets / t2f / f2t properties and  *)
(*     boundary_facets), and                                               *)
(*   - the bilinear form assembler of                                      *)
(*     skfem/assembly/form/bilinear_form.py (_assemble, _kernel,           *)
(*     _threaded_kernel, assemble), worker threads included.               *)
(*                                                                         *)
(* Conventions.  A numpy array of shape (R, C) is a sequence of R rows,    *)
(* each a sequence of C entries, so the numpy entry A[r, c] is             *)
(* A[r + 1][c + 1] here.  The VALUES stored in arrays (node indices,       *)
(* entity indices, element indices, DOF numbers) are 0-based as in the     *)
(* code.  A one-dimensional array is a sequence.  Floating point values    *)
(* are integers.                                                           *)
(***************************************************************************)
EXTENDS Integers, Sequences, FiniteSets, TLC

VARIABLES
    \* ---- Mesh (skfem/mesh/mesh.py) ----
    elem,       \* Mesh.elem: the element type, named by its reference domain
    t,          \* Mesh.t: connectivity, shape (nnodes, nelements)
    _facets,    \* Mesh._facets, <<>> while the attribute does not exist
    _t2f,       \* Mesh._t2f,    <<>> while the attribute does not exist
    _f2t,       \* Mesh._f2t,    <<>> while the attribute does not exist
    bfacets,    \* the value returned by the last boundary_facets() call,
                \* <<-1>> before the first call
    _edges,     \* Mesh._edges,  <<>> while the attribute does not exist
    _t2e,       \* Mesh._t2e,    <<>> while the attribute does not exist
    ncomp,      \* history: how often _init_facets, _init_edges and
                \* build_inverse (for f2t) have run on this mesh
    cachehit,   \* history: some property access found its attribute stored
    \* ---- BilinearForm (skfem/assembly/form/bilinear_form.py) ----
    form,       \* self.form: the user kernel, [expr, bad]; it raises on the
                \* (trial, test) index pairs in bad
    nthreads,   \* self.nthreads
    ubasis,     \* the argument ubasis
    vbasis,     \* the argument vbasis, None when it is not supplied
    pc,         \* where the calling thread is: "idle" (no call), "call",
                \* "loop", "start", "join", "flatten", "returned", "raised",
                \* "assembled"
    exc,        \* the exception the call raised, "none" when none
    data,       \* the local data of _assemble
    rows,       \* the local rows of _assemble
    cols,       \* the local cols of _assemble
    threads,    \* the local threads of _assemble: per worker its chunk ix,
                \* the position of its loop in ix and its status
    started,    \* how many iterations `for t in threads: t.start()` has made
    joined,     \* how many iterations `for t in threads: t.join()` has made
    result,     \* the value _assemble returned, <<>> before it returns
    matrix,     \* the value assemble returned, <<>> before it returns
    nevals,     \* history: the number of calls of self.form made so far
    wlog,       \* history: per slot data[j, i] the workers that wrote it and
                \* the number of writes
    \* ---- Mesh instances and their transformations (skfem/mesh/mesh.py) ----
    meshes,     \* the Mesh instances created so far; an instance is known by
                \* its position in this sequence
    dicts,      \* the dict objects created so far (named boundaries and
                \* subdomains); a mesh refers to a dict by its position
    call,       \* the last call of a transformation: operation, operands,
                \* arguments, the instance returned and the exception raised
    phase,      \* "none" (no instance under consideration), "fresh",
                \* "transformed" (one transformation was applied), "joined"
    \* ---- Import and export (skfem/io/meshio.py) ----
    src,        \* the mesh passed to to_meshio, <<>> when there is none
    mio,        \* the meshio.Mesh object passed to from_meshio, <<>> before
                \* to_meshio has built it
    iopc,       \* where from_meshio is: "none" (no import is considered),
                \* "export" (to_meshio is to run), "call", "typed" (lines
                \* 10-28 done), "returned", "raised"
    imp         \* the locals and the result of from_meshio

meshvars == <<elem, t, _facets, _t2f, _f2t, bfacets, _edges, _t2e, ncomp, cachehit>>

asmvars == <<form, nthreads, ubasis, vbasis, pc, exc, data, rows, cols,
             threads, started, joined, result, matrix, nevals, wlog>>

opvars == <<meshes, dicts, call, phase>>

iovars == <<src, mio, iopc, imp>>

libvars == <<opvars, iovars>>

vars == <<meshvars, asmvars, libvars>>

-----------------------------------------------------------------------------
(* Bounds of the model. *)

\* node indices are drawn from 0 .. MaxNode
MaxNode == 3
\* the connectivity array t holds at most MaxEntries entries (nnodes * nelements)
MaxEntries == 6
\* a basis has 1 .. MaxNbfun local basis functions
MaxNbfun == 2
\* a basis has 1 .. MaxNt elements
MaxNt == 2
\* a basis has 1 .. MaxNqp quadrature points per element
MaxNqp == 2
\* nthreads is drawn from 0 .. MaxThreads
MaxThreads == 3

-----------------------------------------------------------------------------
(* numpy helpers *)

Range(s) == {s[i] : i \in 1..Len(s)}

\* the sequence <<F(1), ..., F(n)>>, built entry by entry
SeqGen(n, F(_)) ==
    LET RECURSIVE Gen(_)
        Gen(k) == IF k <= 0 THEN <<>> ELSE Append(Gen(k - 1), F(k))
    IN  Gen(n)

SetMin(S) == CHOOSE x \in S : \A y \in S : x <= y

SetMax(S) == CHOOSE x \in S : \A y \in S : x >= y

\* A.shape[0], A.shape[1]
NRows(A) == Len(A)

NCols(A) == Len(A[1])

\* A[:, c] for the 0-based column c
Col(A, c) == SeqGen(Len(A), LAMBDA r : A[r][c + 1])

\* np.sort of a one-dimensional array (ascending)
RECURSIVE np_sort(_)
np_sort(s) ==
    IF Len(s) <= 1 THEN s
    ELSE LET m == SetMin(Range(s))
             i == SetMin({k \in 1..Len(s) : s[k] = m})
             rest == SeqGen(Len(s) - 1, LAMBDA k : IF k < i THEN s[k] ELSE s[k + 1])
         IN  <<m>> \o np_sort(rest)

\* the order np.unique(axis=1) puts columns in: lexicographic, first row most
\* significant
RECURSIVE LexLess(_, _)
LexLess(a, b) ==
    IF Len(a) = 0 THEN FALSE
    ELSE IF a[1] # b[1] THEN a[1] < b[1]
    ELSE LexLess(Tail(a), Tail(b))

\* the elements of the finite set S in ascending order of Less
SortedSet(S, Less(_, _)) ==
    LET RECURSIVE Srt(_)
        Srt(R) == IF R = {} THEN <<>>
                  ELSE LET m == CHOOSE x \in R : \A y \in R : ~Less(y, x)
                       IN  <<m>> \o Srt(R \ {m})
    IN  Srt(S)

\* the 0-based index of the first entry of s equal to v
FirstIndex(s, v) == SetMin({c \in 1..Len(s) : s[c] = v}) - 1

\* np.unique(A, axis=1, return_index=True, return_inverse=True) for an array A
\* given as the sequence of its COLUMNS: the distinct columns in ascending
\* order, for each the (0-based) index of its first occurrence, and for each
\* column of A the (0-based) index of its value among the distinct ones.
np_unique_cols(columns) ==
    LET uniq == SortedSet(Range(columns), LexLess)
    IN  [uniq    |-> uniq,
         index   |-> SeqGen(Len(uniq), LAMBDA n : FirstIndex(columns, uniq[n])),
         inverse |-> SeqGen(Len(columns), LAMBDA c : FirstIndex(uniq, columns[c]))]

\* np.unique(e, return_index=True) for a one-dimensional array e
np_unique(e) ==
    LET uniq == SortedSet(Range(e), LAMBDA a, b : a < b)
    IN  [uniq  |-> uniq,
         index |-> SeqGen(Len(uniq), LAMBDA n : FirstIndex(e, uniq[n]))]

\* e[::-1]
Reverse(e) == SeqGen(Len(e), LAMBDA i : e[Len(e) + 1 - i])

\* np.nonzero(row == v)[0]: the 0-based positions holding v, ascending
nonzero_eq(row, v) ==
    SortedSet({i - 1 : i \in {j \in 1..Len(row) : row[j] = v}}, LAMBDA a, b : a < b)

-----------------------------------------------------------------------------
(* Reference domains: the facet templates handed to build_entities and the  *)
(* number of nodes of an element.                                           *)

ElemTypes == {"line", "tri", "tet"}

\* elem.refdom.nnodes
refdom_nnodes(el) ==
    CASE el = "line" -> 2
      [] el = "tri"  -> 3
      [] el = "tet"  -> 4
      [] el = "quad" -> 4
      [] el = "hex"  -> 8

\* elem.refdom.facets: one tuple of local node indices per local facet
refdom_facets(el) ==
    CASE el = "line" -> << <<0>>, <<1>> >>
      [] el = "tri"  -> << <<0, 1>>, <<1, 2>>, <<0, 2>> >>
      [] el = "tet"  -> << <<0, 1, 2>>, <<0, 1, 3>>, <<0, 2, 3>>, <<1, 2, 3>> >>
      [] el = "quad" -> << <<0, 1>>, <<1, 2>>, <<2, 3>>, <<0, 3>> >>
      [] el = "hex"  -> << <<0, 1, 4, 2>>, <<0, 2, 6, 3>>, <<0, 3, 5, 1>>,
                           <<2, 4, 7, 6>>, <<1, 5, 7, 4>>, <<3, 6, 7, 5>> >>

\* elem.refdom.edges: the edge templates, which only a three-dimensional
\* reference domain has
refdom_edges(el) ==
    CASE el = "tet" -> << <<0, 1>>, <<1, 2>>, <<0, 2>>, <<0, 3>>, <<1, 3>>, <<2, 3>> >>
      [] OTHER      -> <<>>

-----------------------------------------------------------------------------
(* Mesh.build_entities, Mesh.build_inverse, Mesh.boundary_facets *)

\* the nodes t[ix, e] of the local sub-entity with template ix of the
\* (1-based) element column e
SubEntity(tt, ix, e) == SeqGen(Len(ix), LAMBDA r : tt[ix[r] + 1][e])

\* np.hstack(tuple([t[ix] for ix in indices])), as the sequence of its columns:
\* column k * nelements + e holds the nodes of local sub-entity k of element e
indexing_cols(tt, indices) ==
    SeqGen(Len(indices) * NCols(tt),
           LAMBDA c : SubEntity(tt, indices[((c - 1) \div NCols(tt)) + 1],
                                ((c - 1) % NCols(tt)) + 1))

\* an array given by its columns, as rows
FromCols(columns, nrows) ==
    SeqGen(nrows, LAMBDA r : SeqGen(Len(columns), LAMBDA c : columns[c][r]))

\* ixb.reshape((K, n))
reshape(flat, K, n) ==
    SeqGen(K, LAMBDA k : SeqGen(n, LAMBDA e : flat[(k - 1) * n + e]))

\* build_entities without the np.sort of line 644
build_entities_unsorted(tt, indices, sort) ==
    LET indexing == indexing_cols(tt, indices)
        u        == np_unique_cols(indexing)
        mapping  == reshape(u.inverse, Len(indices), NCols(tt))
        nr       == Len(indices[1])
    IN  IF sort
        THEN <<FromCols(u.uniq, nr), mapping>>
        ELSE <<FromCols(SeqGen(Len(u.index), LAMBDA n : indexing[u.index[n] + 1]), nr),
               mapping>>

\* build_entities returning the sorted tuples whatever sort is (line 655 left
\* out)
build_entities_always_sorted(tt, indices, sort) ==
    LET indexing        == indexing_cols(tt, indices)
        sorted_indexing == SeqGen(Len(indexing), LAMBDA c : np_sort(indexing[c]))
        u               == np_unique_cols(sorted_indexing)
    IN  <<FromCols(u.uniq, Len(indices[1])), reshape(u.inverse, Len(indices), NCols(tt))>>

build_entities(tt, indices, sort) ==
    LET indexing        == indexing_cols(tt, indices)
        sorted_indexing == SeqGen(Len(indexing), LAMBDA c : np_sort(indexing[c]))
        u               == np_unique_cols(sorted_indexing)
        mapping         == reshape(u.inverse, Len(indices), NCols(tt))
        nr              == Len(indices[1])
    IN  IF sort
        THEN <<FromCols(u.uniq, nr), mapping>>
        ELSE <<FromCols(SeqGen(Len(u.index), LAMBDA n : indexing[u.index[n] + 1]), nr),
               mapping>>

\* mapping.flatten(order='C')
flatten_C(A) ==
    SeqGen(NRows(A) * NCols(A),
           LAMBDA x : A[((x - 1) \div NCols(A)) + 1][((x - 1) % NCols(A)) + 1])

\* np.tile(np.arange(n), (1, reps))[0]
tile_arange(n, reps) == SeqGen(n * reps, LAMBDA x : (x - 1) % n)

\* the array a after the scatter a[keys] = vals (keys 0-based, distinct)
Scatter(a, keys, vals) ==
    SeqGen(Len(a), LAMBDA f : IF (f - 1) \in Range(keys)
                              THEN vals[FirstIndex(keys, f - 1) + 1]
                              ELSE a[f])

\* build_inverse taking the last occurrences from e instead of e[::-1]
build_inverse_unreversed(tt, mapping) ==
    LET e     == flatten_C(mapping)
        tix   == tile_arange(NCols(tt), NRows(tt))
        first == np_unique(e)
        zeros == SeqGen(SetMax(Range(e)) + 1, LAMBDA f : 0)
        inv0  == Scatter(zeros, first.uniq,
                         SeqGen(Len(first.index), LAMBDA n : tix[first.index[n] + 1]))
    IN  <<inv0, SeqGen(Len(inv0), LAMBDA f : -1)>>

build_inverse(tt, mapping) ==
    LET e        == flatten_C(mapping)
        tix      == tile_arange(NCols(tt), NRows(tt))
        first    == np_unique(e)
        last     == np_unique(Reverse(e))
        ix_last  == SeqGen(Len(last.index), LAMBDA n : Len(e) - last.index[n] - 1)
        zeros    == SeqGen(SetMax(Range(e)) + 1, LAMBDA f : 0)
        inv0     == Scatter(zeros, first.uniq,
                            SeqGen(Len(first.index), LAMBDA n : tix[first.index[n] + 1]))
        inv1     == Scatter(zeros, last.uniq,
                            SeqGen(Len(ix_last), LAMBDA n : tix[ix_last[n] + 1]))
    IN  <<inv0, SeqGen(Len(inv1), LAMBDA f : IF inv0[f] = inv1[f] THEN -1 ELSE inv1[f])>>

\* hasattr(self, '_facets') and the like
hasattr(x) == x # <<>>

-----------------------------------------------------------------------------
(* The mesh: construction and the lazily computed properties *)

\* no assembly call is under way (the mesh properties are read between calls)
AsmIdle ==
    /\ form = [expr |-> "mass", bad |-> {}]
    /\ nthreads = 0
    /\ ubasis = <<>>
    /\ vbasis = <<>>
    /\ pc = "idle"
    /\ exc = "none"
    /\ data = <<>>
    /\ rows = <<>>
    /\ cols = <<>>
    /\ threads = <<>>
    /\ started = 0
    /\ joined = 0
    /\ result = <<>>
    /\ matrix = <<>>
    /\ nevals = 0
    /\ wlog = <<>>

\* no mesh transformation is modelled
OpsIdle ==
    /\ meshes = <<>>
    /\ dicts = <<>>
    /\ call = [op |-> "none"]
    /\ phase = "none"

\* no import or export is modelled
IoIdle ==
    /\ src = <<>>
    /\ mio = <<>>
    /\ iopc = "none"
    /\ imp = <<>>

LibIdle == OpsIdle /\ IoIdle

\* a mesh on which no derived field has been computed yet
NoCache ==
    /\ _facets = <<>>
    /\ _t2f = <<>>
    /\ _f2t = <<>>
    /\ bfacets = <<-1>>
    /\ _edges = <<>>
    /\ _t2e = <<>>
    /\ ncomp = [facets |-> 0, edges |-> 0, f2t |-> 0]
    /\ cachehit = FALSE

\* no mesh is under consideration (an assembly call is modelled)
MeshIdle ==
    /\ elem = "line"
    /\ t = <<>>
    /\ NoCache

\* every connectivity array of nn rows and ne columns over the node range
Connectivities(nn, ne) == [1..nn -> [1..ne -> 0..MaxNode]]

InitMesh ==
    /\ elem \in ElemTypes
    /\ \E ne \in 1..MaxEntries :
          /\ refdom_nnodes(elem) * ne <= MaxEntries
          /\ t \in Connectivities(refdom_nnodes(elem), ne)
    /\ NoCache
    /\ AsmIdle
    /\ LibIdle

\* Mesh._init_facets: the pair (self._facets, self._t2f) it assigns
init_facets == build_entities(t, refdom_facets(elem), TRUE)

\* Mesh._init_edges: the pair (self._edges, self._t2e) it assigns
init_edges == build_entities(t, refdom_edges(elem), TRUE)

\* the properties facets and t2f without the hasattr test: _init_facets runs
\* on every access
FacetsOrInit_always(attr) ==
    LET built == init_facets
    IN  /\ _facets' = built[1]
        /\ _t2f' = built[2]
        /\ ncomp' = [ncomp EXCEPT !.facets = @ + 1]
        /\ cachehit' = cachehit

\* `if not hasattr(self, attr): self._init_facets()` of the properties
\* facets (attr = _facets) and t2f (attr = _t2f)
FacetsOrInit(attr) ==
    IF ~hasattr(attr)
    THEN LET built == init_facets
         IN  /\ _facets' = built[1]
             /\ _t2f' = built[2]
             /\ ncomp' = [ncomp EXCEPT !.facets = @ + 1]
             /\ cachehit' = cachehit
    ELSE /\ UNCHANGED <<_facets, _t2f, ncomp>>
         /\ cachehit' = TRUE

\* the property Mesh.facets
GetFacets ==
    /\ pc = "idle"
    /\ phase = "none"
    /\ FacetsOrInit(_facets)
    /\ UNCHANGED <<elem, t, _f2t, bfacets, _edges, _t2e, asmvars, libvars>>

\* the property Mesh.t2f
GetT2f ==
    /\ pc = "idle"
    /\ phase = "none"
    /\ FacetsOrInit(_t2f)
    /\ UNCHANGED <<elem, t, _f2t, bfacets, _edges, _t2e, asmvars, libvars>>

\* the property Mesh.f2t (lines 99-103); reading self.t2f may run _init_facets
ReadF2t ==
    IF ~hasattr(_f2t)
    THEN /\ IF ~hasattr(_t2f)
            THEN LET built == init_facets
                 IN  /\ _facets' = built[1]
                     /\ _t2f' = built[2]
                     /\ ncomp' = [ncomp EXCEPT !.facets = @ + 1, !.f2t = @ + 1]
                     /\ cachehit' = cachehit
            ELSE /\ UNCHANGED <<_facets, _t2f>>
                 /\ ncomp' = [ncomp EXCEPT !.f2t = @ + 1]
                 /\ cachehit' = TRUE
         /\ _f2t' = build_inverse(t, _t2f')
    ELSE /\ UNCHANGED <<_facets, _t2f, _f2t, ncomp>>
         /\ cachehit' = TRUE

GetF2t ==
    /\ pc = "idle"
    /\ phase = "none"
    /\ ReadF2t
    /\ UNCHANGED <<elem, t, bfacets, _edges, _t2e, asmvars, libvars>>

\* `if not hasattr(self, attr): self._init_edges()` of the properties edges
\* (attr = _edges) and t2e (attr = _t2e)
EdgesOrInit(attr) ==
    IF ~hasattr(attr)
    THEN LET built == init_edges
         IN  /\ _edges' = built[1]
             /\ _t2e' = built[2]
             /\ ncomp' = [ncomp EXCEPT !.edges = @ + 1]
             /\ cachehit' = cachehit
    ELSE /\ UNCHANGED <<_edges, _t2e, ncomp>>
         /\ cachehit' = TRUE

\* the property Mesh.edges; a reference domain of dimension three has edges
GetEdges ==
    /\ pc = "idle"
    /\ phase = "none"
    /\ refdom_edges(elem) # <<>>
    /\ EdgesOrInit(_edges)
    /\ UNCHANGED <<elem, t, _facets, _t2f, _f2t, bfacets, asmvars, libvars>>

\* the property Mesh.t2e
GetT2e ==
    /\ pc = "idle"
    /\ phase = "none"
    /\ refdom_edges(elem) # <<>>
    /\ EdgesOrInit(_t2e)
    /\ UNCHANGED <<elem, t, _facets, _t2f, _f2t, bfacets, asmvars, libvars>>

\* boundary_facets reading row 0 of f2t instead of row 1
boundary_facets_row0(f2t) == nonzero_eq(f2t[1], -1)

\* np.nonzero(self.f2t[1] == -1)[0]
boundary_facets(f2t) == nonzero_eq(f2t[2], -1)

\* Mesh.boundary_facets(), the f2t property access included
BoundaryFacets ==
    /\ pc = "idle"
    /\ phase = "none"
    /\ ReadF2t
    /\ bfacets' = boundary_facets(_f2t')
    /\ UNCHANGED <<elem, t, _edges, _t2e, asmvars, libvars>>

NextMesh == GetFacets \/ GetT2f \/ GetF2t \/ BoundaryFacets \/ GetEdges \/ GetT2e

SpecMesh == InitMesh /\ [][NextMesh]_vars

-----------------------------------------------------------------------------
(* Properties of the topology builder *)

\* the local facets (t2f column) of every element are pairwise distinct
DistinctLocalFacets ==
    \A e \in 1..NCols(_t2f) : \A k1, k2 \in 1..NRows(_t2f) :
        k1 # k2 => _t2f[k1][e] # _t2f[k2][e]

\* the (0-based) elements that have facet f among their local facets
Owners(f) == {e - 1 : e \in {c \in 1..NCols(_t2f) : \E k \in 1..NRows(_t2f) : _t2f[k][c] = f}}

\* the facets owned by exactly one element
SingleOwnerFacets == {f \in 0..(NCols(_facets) - 1) : Cardinality(Owners(f)) = 1}

\* C1: on a mesh whose elements each have pairwise distinct local facets,
\* f2t[1][f] = -1 exactly for the facets f that exactly one element owns, and
\* boundary_facets() returns exactly those facets in ascending order; on a
\* single-element mesh every facet is a boundary facet.
C1_BoundaryIffSingleOwner ==
    hasattr(_f2t) =>
        LET single == SingleOwnerFacets
        IN  /\ DistinctLocalFacets =>
                  /\ Len(_f2t[2]) = NCols(_facets)
                  /\ \A f \in 0..(NCols(_facets) - 1) :
                        (_f2t[2][f + 1] = -1) <=> (f \in single)
                  /\ bfacets # <<-1>> =>
                        /\ Range(bfacets) = single
                        /\ \A a, b \in 1..Len(bfacets) : a < b => bfacets[a] < bfacets[b]
            /\ NCols(t) = 1 =>
                  /\ \A f \in 1..Len(_f2t[2]) : _f2t[2][f] = -1
                  /\ bfacets # <<-1>> =>
                        bfacets = SeqGen(NCols(_facets), LAMBDA n : n - 1)

\* boundary_facets() has run on a two-triangle mesh with distinct local facets
\* that has one interior facet and four boundary facets
C1_Witness ==
    /\ elem = "tri"
    /\ bfacets # <<-1>>
    /\ NCols(t) = 2
    /\ DistinctLocalFacets
    /\ NCols(_facets) = 5
    /\ Len(bfacets) = 4

\* the nodes of local sub-entity k of element column e, in the element's order
OccNodes(k, e) == SubEntity(t, refdom_facets(elem)[k], e)

\* the sub-entities of the mesh, local-index-major: entry (k - 1) * ne + e is
\* [k, e, the nodes, the nodes sorted, the entity index t2f gives it]
Occurrences ==
    SeqGen(NRows(_t2f) * NCols(_t2f), LAMBDA x :
        LET k == ((x - 1) \div NCols(_t2f)) + 1
            e == ((x - 1) % NCols(_t2f)) + 1
            nodes == OccNodes(k, e)
        IN  [k |-> k, e |-> e, nodes |-> nodes, sorted |-> np_sort(nodes),
             distinct |-> Cardinality(Range(nodes)) = Len(nodes),
             entity |-> _t2f[k][e]])

\* C2: build_entities(t, indices) with sort=True returns (E, M) where column
\* M[k][e] of E is the ascending-sorted node tuple t[indices[k], e], the
\* columns of E are pairwise distinct and each is referenced; so two
\* occurrences get the same entity index iff their sorted node tuples agree
\* (iff their node sets agree, when the nodes of each are distinct).
C2_EntitiesAreSortedTuples ==
    hasattr(_facets) =>
        /\ hasattr(_t2f)
        /\ NRows(_t2f) = Len(refdom_facets(elem))
        /\ NCols(_t2f) = NCols(t)
        /\ LET occ == Occurrences
               E == SeqGen(NCols(_facets), LAMBDA f : Col(_facets, f - 1))
           IN  /\ \A x \in 1..Len(occ) :
                     /\ occ[x].entity \in 0..(Len(E) - 1)
                     /\ E[occ[x].entity + 1] = occ[x].sorted
               /\ \A f1, f2 \in 1..Len(E) : f1 # f2 => E[f1] # E[f2]
               /\ \A f \in 1..Len(E) : \E x \in 1..Len(occ) : occ[x].entity = f - 1
               /\ \A x, y \in 1..Len(occ) :
                     /\ (occ[x].entity = occ[y].entity) <=> (occ[x].sorted = occ[y].sorted)
                     /\ (occ[x].distinct /\ occ[y].distinct) =>
                           ((occ[x].entity = occ[y].entity)
                               <=> (Range(occ[x].nodes) = Range(occ[y].nodes)))

\* the facets of a two-triangle mesh are built, and the two elements list the
\* nodes of a facet they share in different orders
C2_Witness ==
    /\ elem = "tri"
    /\ hasattr(_facets)
    /\ NCols(t) = 2
    /\ NCols(_facets) = 5
    /\ \E k1, k2 \in 1..3 :
          /\ _t2f[k1][1] = _t2f[k2][2]
          /\ OccNodes(k1, 1) # OccNodes(k2, 2)
          /\ OccNodes(k1, 1) # np_sort(OccNodes(k1, 1))

\* the positions (1-based, local-index-major scan of t2f) where entity f occurs
ScanPositions(f) ==
    {x \in 1..(NRows(_t2f) * NCols(_t2f)) :
        _t2f[((x - 1) \div NCols(_t2f)) + 1][((x - 1) % NCols(_t2f)) + 1] = f}

\* the (0-based) element of scan position x
ScanElement(x) == (x - 1) % NCols(_t2f)

\* C3: build_inverse(t, M) returns two rows; inverse[0][f] is the element of
\* the first occurrence of f in the local-index-major scan of M, inverse[1][f]
\* the element of the last occurrence, or -1 when that is inverse[0][f]; every
\* slot that is not -1 names an owner of f and the two slots differ.
C3_FirstAndLastOwner ==
    hasattr(_f2t) =>
        /\ Len(_f2t) = 2
        /\ Len(_f2t[1]) = NCols(_facets)
        /\ Len(_f2t[2]) = NCols(_facets)
        /\ \A f \in 0..(NCols(_facets) - 1) :
              LET where == ScanPositions(f)
                  first == ScanElement(SetMin(where))
                  last  == ScanElement(SetMax(where))
                  own   == Owners(f)
              IN  /\ _f2t[1][f + 1] = first
                  /\ _f2t[2][f + 1] = IF last = first THEN -1 ELSE last
                  /\ _f2t[1][f + 1] \in own
                  /\ _f2t[2][f + 1] # -1 =>
                        /\ _f2t[2][f + 1] \in own
                        /\ _f2t[2][f + 1] # _f2t[1][f + 1]

\* f2t is built on a mesh with a facet owned by three elements, and on that
\* facet the first slot holds a later element than the second
C3_Witness ==
    /\ hasattr(_f2t)
    /\ \E f \in 0..(NCols(_facets) - 1) :
          /\ Cardinality(Owners(f)) = 3
          /\ _f2t[1][f + 1] > _f2t[2][f + 1]
          /\ _f2t[2][f + 1] >= 0

\* what one step may do to a stored field x (x2 being the field it is computed
\* with, n the number of times the computation has run): once stored, neither
\* changes and the computation does not run again; when x becomes stored, the
\* computation has run exactly once
StoredOnce(x, xn, x2, x2n, n, nn) ==
    /\ hasattr(x) => (xn = x /\ x2n = x2 /\ nn = n)
    /\ hasattr(xn) <=> nn = 1
    /\ nn <= 1

\* C12: each derived topology field (facets, t2f, f2t, edges, t2e) is computed
\* at most once per mesh: the first access to facets or t2f computes both with
\* build_entities from t, the first access to f2t computes
\* build_inverse(t, t2f), every later access returns the stored value without
\* recomputation; over any sequence of accesses the values never change and
\* f2t = build_inverse(t, t2f) (it is so when f2t is stored, and neither t,
\* t2f nor f2t changes afterwards).
C12_ComputedOnce ==
    [][ /\ StoredOnce(_facets, _facets', _t2f, _t2f', ncomp.facets, ncomp'.facets)
        /\ StoredOnce(_t2f, _t2f', _facets, _facets', ncomp.facets, ncomp'.facets)
        /\ StoredOnce(_edges, _edges', _t2e, _t2e', ncomp.edges, ncomp'.edges)
        /\ StoredOnce(_t2e, _t2e', _edges, _edges', ncomp.edges, ncomp'.edges)
        /\ StoredOnce(_f2t, _f2t', _f2t, _f2t', ncomp.f2t, ncomp'.f2t)
        /\ t' = t
        /\ (~hasattr(_facets) /\ hasattr(_facets')) =>
              <<_facets', _t2f'>> = build_entities(t, refdom_facets(elem), TRUE)
        /\ (~hasattr(_edges) /\ hasattr(_edges')) =>
              <<_edges', _t2e'>> = build_entities(t, refdom_edges(elem), TRUE)
        /\ hasattr(_f2t') => hasattr(_t2f')
        /\ (~hasattr(_f2t) /\ hasattr(_f2t')) => _f2t' = build_inverse(t, _t2f')
      ]_vars

\* on a tetrahedral mesh every derived field is stored, each computation has
\* run once, and a later access has returned a stored value
C12_Witness ==
    /\ elem = "tet"
    /\ hasattr(_facets) /\ hasattr(_t2f) /\ hasattr(_f2t)
    /\ hasattr(_edges) /\ hasattr(_t2e)
    /\ ncomp = [facets |-> 1, edges |-> 1, f2t |-> 1]
    /\ cachehit

-----------------------------------------------------------------------------
(* The bases handed to the assembler.  A basis is the record of the fields  *)
(* _assemble reads: Nbfun, N, nelems, the number of quadrature points       *)
(* X.shape[1] (nqp), element_dofs of shape (Nbfun, nelems), basis[j] of      *)
(* shape (nelems, nqp) and dx of shape (nelems, nqp).                        *)

DofLayouts == {"cont", "disc"}

\* "cont": consecutive elements share DOFs (element e holds e, e+1, ...);
\* "disc": every element has its own DOFs
MkBasis(nb, nt, nq, layout, fam) ==
    [Nbfun        |-> nb,
     nelems       |-> nt,
     nqp          |-> nq,
     N            |-> IF layout = "cont" THEN nt + nb - 1 ELSE nt * nb,
     element_dofs |-> SeqGen(nb, LAMBDA i : SeqGen(nt, LAMBDA e :
                        IF layout = "cont" THEN (i - 1) + (e - 1)
                        ELSE (e - 1) * nb + (i - 1))),
     basis        |-> SeqGen(nb, LAMBDA i : SeqGen(nt, LAMBDA e :
                        SeqGen(nq, LAMBDA q : fam * i + (e - 1) + 2 * (q - 1)))),
     dx           |-> SeqGen(nt, LAMBDA e : SeqGen(nq, LAMBDA q : e + (q - 1)))]

FormExprs == {"mass", "asym"}

\* self.form(u, v, w) at one quadrature point
form_value(expr, u, v) ==
    CASE expr = "mass" -> u * v
      [] expr = "asym" -> u + 3 * v

-----------------------------------------------------------------------------
(* BilinearForm._kernel, _threaded_kernel, _assemble, assemble *)

SumSeq(s) ==
    LET RECURSIVE Acc(_)
        Acc(k) == IF k = 0 THEN 0 ELSE Acc(k - 1) + s[k]
    IN  Acc(Len(s))

\* np.sum(self.form(*u, *v, w), axis=1): the integration weights left out
kernel_unweighted(expr, u, v, dx) ==
    SeqGen(Len(dx), LAMBDA e :
        SumSeq(SeqGen(Len(dx[e]), LAMBDA q : form_value(expr, u[e][q], v[e][q]))))

\* np.sum(self.form(*u, *v, w) * dx, axis=1): one value per element
kernel(expr, u, v, dx) ==
    SeqGen(Len(dx), LAMBDA e :
        SumSeq(SeqGen(Len(dx[e]), LAMBDA q : form_value(expr, u[e][q], v[e][q]) * dx[e][q])))

\* the test basis _assemble works with (lines 53-54)
TestBasis(ub, vb) == IF vb = <<>> THEN ub ELSE vb[1]

\* product(range(ub.Nbfun), range(vb.Nbfun)) as <<j, i>> pairs, in order
product(nu, nv) ==
    SeqGen(nu * nv, LAMBDA x : <<(x - 1) \div nv, (x - 1) % nv>>)

\* np.zeros(n)
zeros(n) == SeqGen(n, LAMBDA x : 0)

\* a with a[lo:hi] = vals (0-based slice)
SetSlice(a, lo, hi, vals) ==
    SeqGen(Len(a), LAMBDA x : IF lo <= x - 1 /\ x - 1 < hi THEN vals[x - lo] ELSE a[x])

\* slice(nt * (vb.Nbfun * j + i), nt * (vb.Nbfun * j + i + 1)) as <<lo, hi>>
ixs(nt, nbv, j, i) == <<nt * (nbv * j + i), nt * (nbv * j + i + 1)>>

\* rows (which = "rows") or cols (which = "cols") after the first n
\* iterations of the double loop of lines 67-71; the other entries are the
\* zeros of lines 65-66
fill_dofs(ub, vb, which, n) ==
    LET nt == ub.nelems
        pairs == product(ub.Nbfun, vb.Nbfun)
        RECURSIVE Loop(_)
        Loop(m) ==
            IF m = 0 THEN zeros(ub.Nbfun * vb.Nbfun * nt)
            ELSE LET j == pairs[m][1]
                     i == pairs[m][2]
                     sl == ixs(nt, vb.Nbfun, j, i)
                 IN  SetSlice(Loop(m - 1), sl[1], sl[2],
                              IF which = "rows" THEN vb.element_dofs[i + 1]
                              ELSE ub.element_dofs[j + 1])
    IN  Loop(n)

\* the first n pairs of the double loop evaluated into the flat data (line 73)
fill_data(fm, ub, vb, n) ==
    LET nt == ub.nelems
        pairs == product(ub.Nbfun, vb.Nbfun)
        RECURSIVE Loop(_)
        Loop(m) ==
            IF m = 0 THEN zeros(ub.Nbfun * vb.Nbfun * nt)
            ELSE LET j == pairs[m][1]
                     i == pairs[m][2]
                     sl == ixs(nt, vb.Nbfun, j, i)
                 IN  SetSlice(Loop(m - 1), sl[1], sl[2],
                              kernel(fm.expr, ub.basis[j + 1], vb.basis[i + 1], ub.dx))
    IN  Loop(n)

\* the number of pairs the sequential loop evaluates without an exception
\* before the form raises (all of them when it never raises)
pairs_before_raise(fm, pairs) ==
    LET hit == {n \in 1..Len(pairs) : pairs[n] \in fm.bad}
    IN  IF hit = {} THEN Len(pairs) ELSE SetMin(hit) - 1

\* array_split with every section one longer than len // n, so that
\* neighbouring sections overlap
array_split_overlap(indices, n) ==
    LET each == Len(indices) \div n
    IN  SeqGen(n, LAMBDA k :
            SubSeq(indices, (k - 1) * each + 1,
                   IF k * each + 1 <= Len(indices) THEN k * each + 1 ELSE Len(indices)))

\* np.array_split(indices, n, axis=0): n contiguous sections, the first
\* len % n of them one longer than the others
array_split(indices, n) ==
    LET each   == Len(indices) \div n
        extras == Len(indices) % n
        size(k) == IF k <= extras THEN each + 1 ELSE each
        RECURSIVE Start(_)
        Start(k) == IF k = 1 THEN 0 ELSE Start(k - 1) + size(k - 1)
    IN  SeqGen(n, LAMBDA k : SubSeq(indices, Start(k) + 1, Start(k) + size(k)))

\* indices (line 75): the pairs as [i, j], trial index j major
thread_indices(ub, vb) ==
    LET pairs == product(ub.Nbfun, vb.Nbfun)
    IN  SeqGen(Len(pairs), LAMBDA x : <<pairs[x][2], pairs[x][1]>>)

\* data.flatten('C') of the (Nbfun_u, Nbfun_v, nt) array
flatten3(d) ==
    LET RECURSIVE Cat(_)
        Cat(n) == IF n = 0 THEN <<>> ELSE Cat(n - 1) \o flatten_C(d[n])
    IN  Cat(Len(d))

\* COOData._assemble_scipy_csr(data, rows, cols, shape): the matrix of the
\* given shape whose entry (r, c) is the sum of the values at (r, c)
assemble_scipy_csr(dat, rws, cls, shape) ==
    SeqGen(shape[1], LAMBDA r : SeqGen(shape[2], LAMBDA c :
        SumSeq(SeqGen(Len(dat), LAMBDA x :
            IF rws[x] = r - 1 /\ cls[x] = c - 1 THEN dat[x] ELSE 0))))

\* the pairs on which the form may raise: none, the first pair of the double
\* loop, or the last
BadChoices(pairs) == {{}, {pairs[1]}, {pairs[Len(pairs)]}}

Bases(fam) ==
    {MkBasis(nb, nt, nq, layout, fam) :
        nb \in 1..MaxNbfun, nt \in 1..MaxNt, nq \in 1..MaxNqp, layout \in DofLayouts}

\* a call form.assemble(ubasis[, vbasis]) (or form._assemble) begins
InitAsm ==
    /\ MeshIdle
    /\ LibIdle
    /\ ubasis \in Bases(1)
    /\ vbasis \in {<<>>} \cup {<<b>> : b \in {c \in Bases(2) : c.nelems = ubasis.nelems}}
    /\ nthreads \in 0..MaxThreads
    /\ \E expr \in FormExprs :
       \E bad \in BadChoices(product(ubasis.Nbfun, TestBasis(ubasis, vbasis).Nbfun)) :
          form = [expr |-> expr, bad |-> bad]
    /\ pc = "call"
    /\ exc = "none"
    /\ data = <<>>
    /\ rows = <<>>
    /\ cols = <<>>
    /\ threads = <<>>
    /\ started = 0
    /\ joined = 0
    /\ result = <<>>
    /\ matrix = <<>>
    /\ nevals = 0
    /\ wlog = <<>>

\* the quadrature check comparing in one direction only
quadrature_mismatch_onesided(ub, vb) == vb # <<>> /\ ub.nqp > vb[1].nqp

\* lines 53-56: the quadrature check
quadrature_mismatch(ub, vb) == vb # <<>> /\ ub.nqp # vb[1].nqp

Check ==
    /\ pc = "call"
    /\ IF quadrature_mismatch(ubasis, vbasis)
       THEN /\ pc' = "raised"
            /\ exc' = "ValueError"
       ELSE /\ pc' = "loop"
            /\ exc' = exc
    /\ UNCHANGED <<meshvars, libvars, form, nthreads, ubasis, vbasis, data, rows, cols,
                   threads, started, joined, result, matrix, nevals, wlog>>

\* lines 57-73: the allocation and the double loop; with nthreads <= 0 the
\* loop evaluates the kernel, and line 82 returns
Loop ==
    /\ pc = "loop"
    /\ LET vb == TestBasis(ubasis, vbasis)
           pairs == product(ubasis.Nbfun, vb.Nbfun)
           ok == pairs_before_raise(form, pairs)
           entered == IF nthreads > 0 \/ ok = Len(pairs) THEN Len(pairs) ELSE ok + 1
       IN  /\ rows' = fill_dofs(ubasis, vb, "rows", entered)
           /\ cols' = fill_dofs(ubasis, vb, "cols", entered)
           /\ IF nthreads > 0
              THEN /\ data' = SeqGen(ubasis.Nbfun, LAMBDA j :
                                SeqGen(vb.Nbfun, LAMBDA i : zeros(ubasis.nelems)))
                   /\ wlog' = SeqGen(ubasis.Nbfun, LAMBDA j :
                                SeqGen(vb.Nbfun, LAMBDA i : [by |-> {}, n |-> 0]))
                   /\ threads' = LET chunks == array_split(thread_indices(ubasis, vb), nthreads)
                                 IN  SeqGen(nthreads, LAMBDA k :
                                        [ix |-> chunks[k], pos |-> 1, status |-> "new"])
                   /\ pc' = "start"
                   /\ UNCHANGED <<exc, result, nevals>>
              ELSE /\ data' = fill_data(form, ubasis, vb, ok)
                   /\ nevals' = IF ok < Len(pairs) THEN ok + 1 ELSE ok
                   /\ IF ok < Len(pairs)
                      THEN /\ pc' = "raised"
                           /\ exc' = "FormError"
                           /\ result' = result
                      ELSE /\ pc' = "returned"
                           /\ exc' = exc
                           /\ result' = <<data', rows', cols', <<vb.N, ubasis.N>> >>
                   /\ UNCHANGED <<threads, wlog>>
    /\ UNCHANGED <<meshvars, libvars, form, nthreads, ubasis, vbasis, started, joined, matrix>>

\* lines 77-78: one iteration of `for t in threads: t.start()`
StartThread ==
    /\ pc = "start"
    /\ threads' = [threads EXCEPT ![started + 1].status = "running"]
    /\ started' = started + 1
    /\ pc' = IF started + 1 = Len(threads) THEN "join" ELSE "start"
    /\ UNCHANGED <<meshvars, libvars, form, nthreads, ubasis, vbasis, exc, data, rows, cols,
                   joined, result, matrix, nevals, wlog>>

\* lines 107-109 in worker k: one iteration of `for ij in ix`.  An exception of
\* the form ends the worker (threading reports it and the thread terminates);
\* it does not reach the thread that joins.
WorkerStep(k) ==
    /\ threads[k].status = "running"
    /\ threads[k].pos <= Len(threads[k].ix)
    /\ LET ij == threads[k].ix[threads[k].pos]
           i == ij[1]
           j == ij[2]
           vb == TestBasis(ubasis, vbasis)
       IN  /\ nevals' = nevals + 1
           /\ IF <<j, i>> \in form.bad
              THEN /\ threads' = [threads EXCEPT ![k].status = "failed"]
                   /\ UNCHANGED <<data, wlog>>
              ELSE /\ data' = [data EXCEPT ![j + 1][i + 1] =
                                kernel(form.expr, ubasis.basis[j + 1], vb.basis[i + 1], ubasis.dx)]
                   /\ wlog' = [wlog EXCEPT ![j + 1][i + 1] =
                                [by |-> @.by \cup {k}, n |-> @.n + 1]]
                   /\ threads' = [threads EXCEPT ![k].pos = @ + 1]
    /\ UNCHANGED <<meshvars, libvars, form, nthreads, ubasis, vbasis, pc, exc, rows, cols,
                   started, joined, result, matrix>>

\* worker k leaves its loop and terminates
WorkerExit(k) ==
    /\ threads[k].status = "running"
    /\ threads[k].pos > Len(threads[k].ix)
    /\ threads' = [threads EXCEPT ![k].status = "done"]
    /\ UNCHANGED <<meshvars, libvars, form, nthreads, ubasis, vbasis, pc, exc, data, rows, cols,
                   started, joined, result, matrix, nevals, wlog>>

Terminated(th) == th.status \in {"done", "failed"}

\* a join that does not wait for the thread to terminate
JoinThread_nowait ==
    /\ pc = "join"
    /\ joined' = joined + 1
    /\ pc' = IF joined + 1 = Len(threads) THEN "flatten" ELSE "join"
    /\ UNCHANGED <<meshvars, libvars, form, nthreads, ubasis, vbasis, exc, data, rows, cols,
                   threads, started, result, matrix, nevals, wlog>>

\* lines 79-80: one iteration of `for t in threads: t.join()`; join returns
\* once the thread has terminated
JoinThread ==
    /\ pc = "join"
    /\ Terminated(threads[joined + 1])
    /\ joined' = joined + 1
    /\ pc' = IF joined + 1 = Len(threads) THEN "flatten" ELSE "join"
    /\ UNCHANGED <<meshvars, libvars, form, nthreads, ubasis, vbasis, exc, data, rows, cols,
                   threads, started, result, matrix, nevals, wlog>>

\* lines 81-82
Flatten ==
    /\ pc = "flatten"
    /\ data' = flatten3(data)
    /\ result' = <<data', rows, cols, <<TestBasis(ubasis, vbasis).N, ubasis.N>> >>
    /\ pc' = "returned"
    /\ UNCHANGED <<meshvars, libvars, form, nthreads, ubasis, vbasis, exc, rows, cols,
                   threads, started, joined, matrix, nevals, wlog>>

\* assemble handing rows and cols over in the wrong order
Assemble_transposed ==
    /\ pc = "returned"
    /\ matrix' = assemble_scipy_csr(result[1], result[3], result[2], result[4])
    /\ pc' = "assembled"
    /\ UNCHANGED <<meshvars, libvars, form, nthreads, ubasis, vbasis, exc, data, rows, cols,
                   threads, started, joined, result, nevals, wlog>>

\* line 101: assemble hands what _assemble returned to _assemble_scipy_csr
Assemble ==
    /\ pc = "returned"
    /\ matrix' = assemble_scipy_csr(result[1], result[2], result[3], result[4])
    /\ pc' = "assembled"
    /\ UNCHANGED <<meshvars, libvars, form, nthreads, ubasis, vbasis, exc, data, rows, cols,
                   threads, started, joined, result, nevals, wlog>>

NextAsm ==
    \/ Check
    \/ Loop
    \/ StartThread
    \/ \E k \in 1..Len(threads) : WorkerStep(k)
    \/ \E k \in 1..Len(threads) : WorkerExit(k)
    \/ JoinThread
    \/ Flatten
    \/ Assemble

SpecAsm == InitAsm /\ [][NextAsm]_vars

-----------------------------------------------------------------------------
(* Properties of the form assembler *)

\* the test basis and the local (trial j, test i) pairs of the call
VB == TestBasis(ubasis, vbasis)

Pairs == product(ubasis.Nbfun, VB.Nbfun)

\* what the sequential run (nthreads = 0) of the same call returns; it returns
\* only when the form raises on no pair
SequentialReturns == form.bad = {}

SequentialResult ==
    <<fill_data(form, ubasis, VB, Len(Pairs)), fill_dofs(ubasis, VB, "rows", Len(Pairs)),
      fill_dofs(ubasis, VB, "cols", Len(Pairs)), <<VB.N, ubasis.N>> >>

\* C4: for the same form, bases and parameters, _assemble with nthreads = N > 0
\* returns the same data, rows, cols and shape as the sequential run, for
\* every N > 0.
C4_ThreadedEqualsSequential ==
    (result # <<>> /\ nthreads > 0) =>
        (SequentialReturns /\ result = SequentialResult)

\* the part of C4 that holds: when the form raises on no pair, the threaded
\* run returns what the sequential run returns
ThreadedEqualsSequentialWhenFormReturns ==
    (result # <<>> /\ nthreads > 0 /\ SequentialReturns) => result = SequentialResult

\* the concatenation of the sequences of ss
Concat(ss) ==
    LET RECURSIVE Cat(_)
        Cat(n) == IF n = 0 THEN <<>> ELSE Cat(n - 1) \o ss[n]
    IN  Cat(Len(ss))

\* C5: with N > 0 workers the Nbfun_trial * Nbfun_test pairs, trial index
\* major, are split into exactly N contiguous chunks whose sizes differ by at
\* most one; every pair lies in exactly one chunk; no slot data[j, i] is ever
\* written twice or by a worker other than the one whose chunk holds it, and
\* once the workers have run their loops every slot has been written exactly
\* once -- in every interleaving.
C5_DisjointChunks ==
    threads # <<>> =>
        LET chunks == SeqGen(Len(threads), LAMBDA k : threads[k].ix)
            all    == Concat(chunks)
        IN  /\ Len(threads) = nthreads
            /\ Len(all) = ubasis.Nbfun * VB.Nbfun
            /\ \A x \in 1..Len(all) :
                  all[x] = <<(x - 1) % VB.Nbfun, (x - 1) \div VB.Nbfun>>
            /\ \A k1, k2 \in 1..Len(chunks) : Len(chunks[k1]) - Len(chunks[k2]) <= 1
            /\ \A j \in 1..ubasis.Nbfun : \A i \in 1..VB.Nbfun :
                  LET holders == {k \in 1..Len(chunks) : <<i - 1, j - 1>> \in Range(chunks[k])}
                  IN  /\ Cardinality(holders) = 1
                      /\ wlog[j][i].n <= 1
                      /\ wlog[j][i].by \subseteq holders
                      /\ (\A k \in 1..Len(threads) : threads[k].status = "done")
                            => (wlog[j][i].n = 1 /\ wlog[j][i].by = holders)

\* three workers have run their loops over four pairs (three does not divide
\* four) and the call has returned
C5_Witness ==
    /\ pc = "returned"
    /\ nthreads = 3
    /\ ubasis.Nbfun * VB.Nbfun = 4
    /\ \A k \in 1..3 : threads[k].status = "done"
    /\ \A j \in 1..ubasis.Nbfun : \A i \in 1..VB.Nbfun : wlog[j][i].n = 1

\* C6: if the form raises inside a worker thread, the exception reaches the
\* caller and the call returns no result.
C6_WorkerExceptionPropagates ==
    (\E k \in 1..Len(threads) : threads[k].status = "failed") => result = <<>>

\* C7: a threaded call returns only after every worker it started has
\* terminated: all workers are started before any is joined, all are joined
\* before the buffer is flattened and returned, and no worker can write after
\* the return.
C7_JoinedBeforeReturn ==
    /\ joined > 0 => started = Len(threads)
    /\ \A k \in 1..Len(threads) :
          /\ (k <= started) <=> (threads[k].status # "new")
          /\ k <= joined => Terminated(threads[k])
    /\ (nthreads > 0 /\ pc \in {"flatten", "returned", "assembled"}) =>
          /\ Len(threads) = nthreads
          /\ started = nthreads
          /\ joined = nthreads
    /\ (nthreads > 0 /\ result # <<>>) =>
          /\ \A k \in 1..Len(threads) : Terminated(threads[k])
          /\ \A k \in 1..Len(threads) : ~ENABLED WorkerStep(k)
          /\ result[1] = data

\* a call with three workers has returned
C7_Witness ==
    /\ pc = "returned"
    /\ nthreads = 3
    /\ joined = 3
    /\ ubasis.Nbfun * VB.Nbfun = 4

\* the sum over the quadrature points of form(u_j, v_i, w) * dx on element e
\* (j, i, e 0-based)
FormIntegral(j, i, e) ==
    SumSeq(SeqGen(ubasis.nqp, LAMBDA q :
        form_value(form.expr, ubasis.basis[j + 1][e + 1][q], VB.basis[i + 1][e + 1][q])
            * ubasis.dx[e + 1][q]))

\* C8: _assemble returns data, rows, cols of length Nbfun_trial * Nbfun_test *
\* nt and the shape (vbasis.N, ubasis.N); position nt * (Nbfun_test * j + i) + e
\* holds row = vbasis.element_dofs[i][e], col = ubasis.element_dofs[j][e] and
\* value = the sum over the quadrature points of form(u_j, v_i, w) * dx on e.
C8_CooTriplets ==
    result # <<>> =>
        LET nt == ubasis.nelems
            sz == ubasis.Nbfun * VB.Nbfun * nt
        IN  /\ Len(result[1]) = sz
            /\ Len(result[2]) = sz
            /\ Len(result[3]) = sz
            /\ result[4] = <<VB.N, ubasis.N>>
            /\ \A j \in 0..(ubasis.Nbfun - 1) : \A i \in 0..(VB.Nbfun - 1) :
               \A e \in 0..(nt - 1) :
                  LET x == nt * (VB.Nbfun * j + i) + e + 1
                  IN  /\ result[2][x] = VB.element_dofs[i + 1][e + 1]
                      /\ result[3][x] = ubasis.element_dofs[j + 1][e + 1]
                      /\ result[1][x] = FormIntegral(j, i, e)

\* the part of C8 that holds: the triplets of a call in which no worker failed
CooTripletsWhenNoWorkerFailed ==
    (result # <<>> /\ \A k \in 1..Len(threads) : threads[k].status # "failed") =>
        C8_CooTriplets

\* the sum of val(x) over the finite set S
SumOver(S, val(_)) ==
    LET RECURSIVE Acc(_)
        Acc(R) == IF R = {} THEN 0
                  ELSE LET x == CHOOSE y \in R : TRUE
                       IN  val(x) + Acc(R \ {x})
    IN  Acc(S)

\* the positions of the triplets _assemble returned that have row r, column c
TripletsAt(r, c) == {x \in 1..Len(result[1]) : result[2][x] = r /\ result[3][x] = c}

\* C9: assemble returns a matrix of shape (vbasis.N, ubasis.N) whose entry
\* (r, c) is the sum of the values of the triplets of _assemble with row r and
\* column c, zero when there is none.
C9_MatrixSumsTriplets ==
    pc = "assembled" =>
        /\ Len(matrix) = VB.N
        /\ \A r \in 1..Len(matrix) : Len(matrix[r]) = ubasis.N
        /\ \A r \in 0..(VB.N - 1) : \A c \in 0..(ubasis.N - 1) :
              /\ matrix[r + 1][c + 1] = SumOver(TripletsAt(r, c), LAMBDA x : result[1][x])
              /\ TripletsAt(r, c) = {} => matrix[r + 1][c + 1] = 0

\* a matrix is assembled in which one entry sums two triplets, another has no
\* triplet, and which is not symmetric
C9_Witness ==
    /\ pc = "assembled"
    /\ \E r \in 1..Len(matrix) : \E c \in 1..Len(matrix) :
          c <= Len(matrix[r]) /\ r <= Len(matrix[c]) /\ matrix[r][c] # matrix[c][r]
    /\ \E r \in 0..(VB.N - 1) : \E c \in 0..(ubasis.N - 1) :
          /\ Cardinality(TripletsAt(r, c)) = 2
          /\ matrix[r + 1][c + 1] > 0
    /\ \E r \in 0..(VB.N - 1) : \E c \in 0..(ubasis.N - 1) : TripletsAt(r, c) = {}

\* C10: when a test basis is supplied whose number of quadrature points
\* differs from the trial basis's, _assemble raises ValueError before it
\* allocates output or evaluates the form; otherwise it does not raise it.
C10_QuadratureMismatchRaises ==
    pc \notin {"idle", "call"} =>
        LET differs == vbasis # <<>> /\ ubasis.nqp # vbasis[1].nqp
        IN  /\ differs =>
                  /\ pc = "raised"
                  /\ exc = "ValueError"
                  /\ data = <<>>
                  /\ rows = <<>>
                  /\ cols = <<>>
                  /\ threads = <<>>
                  /\ nevals = 0
                  /\ result = <<>>
            /\ ~differs => exc # "ValueError"

\* the call raised ValueError
C10_Witness ==
    /\ pc = "raised"
    /\ exc = "ValueError"
    /\ nevals = 0

-----------------------------------------------------------------------------
(* Mesh instances: the dataclass of skfem/mesh/mesh.py and its subclasses.  *)
(* An instance is a record of its fields.  Coordinates are integers, in     *)
(* units of half the lattice spacing of the meshes considered.  The fields  *)
(* _boundaries and _subdomains hold 0 for None and otherwise the position   *)
(* of a dict object in dicts; a dict is a function from names to index      *)
(* arrays.                                                                  *)

\* a mesh under consideration has 1 .. MaxElems elements
MaxElems == 2

MeshClasses == {"MeshLine1", "MeshTri1", "MeshTri2"}

\* the base class of a class
ClassParent(c) ==
    CASE c = "MeshTri2"  -> "MeshTri1"
      [] c = "MeshTet2"  -> "MeshTet1"
      [] c = "MeshQuad2" -> "MeshQuad1"
      [] OTHER           -> "Mesh"

\* the defaults of the dataclass fields elem, affine and sort_t of a class
ClassDefaults(c) ==
    CASE c = "MeshLine1" -> [elem |-> "ElementLineP1", affine |-> TRUE, sort_t |-> FALSE]
      [] c = "MeshTri1"  -> [elem |-> "ElementTriP1", affine |-> TRUE, sort_t |-> TRUE]
      [] c = "MeshTri2"  -> [elem |-> "ElementTriP2", affine |-> FALSE, sort_t |-> FALSE]
      [] c = "MeshTet1"  -> [elem |-> "ElementTetP1", affine |-> TRUE, sort_t |-> FALSE]
      [] c = "MeshQuad1" -> [elem |-> "ElementQuad1", affine |-> FALSE, sort_t |-> FALSE]
      [] c = "MeshHex1"  -> [elem |-> "ElementHex1", affine |-> FALSE, sort_t |-> FALSE]
      [] c = "MeshTet2"  -> [elem |-> "ElementTetP2", affine |-> FALSE, sort_t |-> FALSE]
      [] c = "MeshQuad2" -> [elem |-> "ElementQuad2", affine |-> FALSE, sort_t |-> FALSE]

\* issubclass(c, d)
RECURSIVE issubclass(_, _)
issubclass(c, d) ==
    \/ c = d
    \/ c # "Mesh" /\ issubclass(ClassParent(c), d)

\* isinstance(m, c)
isinstance(m, c) == issubclass(m.cls, c)

\* elem.refdom, by name
elem_refdom(e) ==
    CASE e = "ElementLineP1" -> "line"
      [] e = "ElementTriP1"  -> "tri"
      [] e = "ElementTriP2"  -> "tri"
      [] e = "ElementTetP1"  -> "tet"
      [] e = "ElementQuad1"  -> "quad"
      [] e = "ElementHex1"   -> "hex"
      [] e = "ElementTetP2"  -> "tet"
      [] e = "ElementQuad2"  -> "quad"

\* Mesh.dim(): self.elem.refdom.dim()
dim(m) ==
    CASE elem_refdom(m.elem) = "line" -> 1
      [] elem_refdom(m.elem) = "tri"  -> 2
      [] elem_refdom(m.elem) = "tet"  -> 3
      [] elem_refdom(m.elem) = "quad" -> 2
      [] elem_refdom(m.elem) = "hex"  -> 3

\* np.sort(t, axis=0): every column ascending
np_sort_axis0(tt) ==
    IF tt = <<>> \/ NCols(tt) = 0 THEN tt
    ELSE FromCols(SeqGen(NCols(tt), LAMBDA e : np_sort(Col(tt, e - 1))), NRows(tt))

\* Mesh.nvertices: np.max(self.t) + 1
nvertices(m) == SetMax(UNION {Range(m.t[r]) : r \in 1..NRows(m.t)}) + 1

\* Mesh.facets and Mesh.t2f of an instance
facets_of(m) == build_entities(m.t, refdom_facets(elem_refdom(m.elem)), TRUE)[1]

t2f_of(m) == build_entities(m.t, refdom_facets(elem_refdom(m.elem)), TRUE)[2]

\* the numbers of degrees of freedom an element attaches to every vertex,
\* edge, facet and element interior: nodal_dofs, edge_dofs, facet_dofs and
\* interior_dofs of the element class
dof_counts(e) ==
    CASE e = "ElementTriP2" -> [nodal |-> 1, edge |-> 0, facet |-> 1, interior |-> 0]
      [] e = "ElementTetP2" -> [nodal |-> 1, edge |-> 1, facet |-> 0, interior |-> 0]
      [] e = "ElementQuad2" -> [nodal |-> 1, edge |-> 0, facet |-> 1, interior |-> 1]
      [] OTHER              -> [nodal |-> 1, edge |-> 0, facet |-> 0, interior |-> 0]

\* offset + A, entry by entry
OffsetRows(A, offset) ==
    SeqGen(NRows(A), LAMBDA r : SeqGen(NCols(A), LAMBDA e : A[r][e] + offset))

\* the rows of element_dofs below the nodal ones: the degrees of freedom of
\* the edges (numbered after those of the vertices), of the facets (after
\* those of the edges) and of the interiors (after those of the facets).
\* E holds the edges and t2e, F the facets and t2f, nedges the number of
\* edges that carry degrees of freedom
entity_dofs(tt, c, nv, nedges, E, F) ==
    (IF nedges > 0 THEN OffsetRows(E[2], nv) ELSE <<>>)
    \o (IF c.facet > 0 THEN OffsetRows(F[2], nv + nedges) ELSE <<>>)
    \o (IF c.interior > 0
        THEN << SeqGen(NCols(tt), LAMBDA e :
                    nv + nedges + (IF c.facet > 0 THEN NCols(F[1]) ELSE 0) + e - 1) >>
        ELSE <<>>)

\* the edges and the facets an element attaches degrees of freedom to:
\* edges, t2e (of an element with edge_dofs in three dimensions) and facets,
\* t2f
dof_entities(tt, rd, c) ==
    SeqGen(2, LAMBDA k :
        IF (k = 1 /\ c.edge > 0 /\ rd \in {"tet", "hex"}) \/ (k = 2 /\ c.facet > 0)
        THEN build_entities(tt, IF k = 1 THEN refdom_edges(rd) ELSE refdom_facets(rd), TRUE)
        ELSE << <<>>, <<>> >>)

element_dofs_of(tt, c, nv, ents) ==
    tt \o entity_dofs(tt, c, nv,
                      IF ents[1][1] = <<>> THEN 0 ELSE NCols(ents[1][1]),
                      ents[1], ents[2])

\* mesh.dofs.element_dofs: Dofs(mesh, mesh.elem()).element_dofs, the global
\* number of every local degree of freedom of every element; the nodal ones
\* are numbered as the vertices
element_dofs(mesh) ==
    element_dofs_of(mesh.t, dof_counts(mesh.elem), nvertices(mesh),
                    dof_entities(mesh.t, elem_refdom(mesh.elem), dof_counts(mesh.elem)))

\* A.flatten('F') of a two-dimensional array: column after column
flatten_F(A) ==
    IF A = <<>> THEN <<>>
    ELSE SeqGen(NRows(A) * NCols(A),
                LAMBDA x : A[((x - 1) % NRows(A)) + 1][((x - 1) \div NRows(A)) + 1])

\* lines 364-369: the columns of the new doflocs.  Column c is p[:, uniq[c]]
\* for a vertex and zero otherwise (lines 364-367), unless line 368 assigns
\* it: target[x] receives p[:, source[x]], the last assignment standing.
reordered_doflocs(p, uniq, ncols, target, source) ==
    FromCols(SeqGen(ncols, LAMBDA c :
                 LET writers == {x \in 1..Len(target) : target[x] = c - 1}
                 IN  IF writers # {}
                     THEN Col(p, source[IF Len(source) = 1 THEN 1
                                        ELSE SetMax(writers)])
                     ELSE IF c <= Len(uniq) THEN Col(p, uniq[c])
                     ELSE SeqGen(NRows(p), LAMBDA i : 0)),
             NRows(p))

\* lines 364-369 with their failures: p[:, uniq] and p[:, t[M:]] need the
\* columns they name (IndexError), the assignment needs as many sources as
\* targets, or one (ValueError), and targets among the new columns
\* (IndexError)
reorder_assign(m, renumbered, uniq, ncols, target, source) ==
    IF \E x \in Range(uniq) \cup Range(source) : x >= NCols(m.doflocs)
    THEN [exc |-> "IndexError"]
    ELSE IF Len(source) # Len(target) /\ Len(source) # 1
    THEN [exc |-> "ValueError"]
    ELSE IF \E x \in Range(target) : x >= ncols
    THEN [exc |-> "IndexError"]
    ELSE [renumbered EXCEPT
             !.doflocs = reordered_doflocs(m.doflocs, uniq, ncols, target, source)]

\* line 368: the targets are self.dofs.element_dofs[M:] of the renumbered
\* instance, the sources t[M:], both column after column
reorder_targets(m, M, uniq, renumbered, ed) ==
    reorder_assign(m, renumbered, uniq,
                   SetMax(UNION {Range(m.t[r]) : r \in 1..NRows(m.t)}) + 1,
                   flatten_F(SubSeq(ed, M + 1, Len(ed))),
                   flatten_F(SubSeq(m.t, M + 1, NRows(m.t))))

\* lines 359-363: self.t becomes the first M rows with the vertices
\* renumbered by their rank among the vertices used, and self.dofs is built
\* on it
reorder_renumbered(m, M, uniq, renumbered) ==
    reorder_targets(m, M, uniq, renumbered, element_dofs(renumbered))

reorder_uniq(m, M, uniq) ==
    reorder_renumbered(m, M, uniq,
        [m EXCEPT !.t = SeqGen(M, LAMBDA r : SeqGen(NCols(m.t), LAMBDA e :
                                   FirstIndex(uniq, m.t[r][e])))])

\* lines 355-369: a connectivity with more rows than the reference domain
\* has nodes is in the node order of an external format; vertex nodes come
\* first in the reordered doflocs
reorder_dofs(m, M) ==
    IF NRows(m.t) > M
    THEN reorder_uniq(m, M,
             SortedSet(UNION {Range(m.t[r]) : r \in 1..M}, LAMBDA a, b : a < b))
    ELSE m

\* lines 349-370 on the instance v
sort_and_reorder(v) ==
    reorder_dofs(IF v.sort_t THEN [v EXCEPT !.t = np_sort_axis0(v.t)] ELSE v,
                 refdom_nnodes(elem_refdom(v.elem)))

\* Mesh.__post_init__: the instance as it leaves it, or the exception raised
post_init(m) == sort_and_reorder(m)

\* cls(p, t, _boundaries, _subdomains): the generated __init__ with the
\* defaults of the class for the other fields, then __post_init__
Construct(c, p, tt, bnd, sub) ==
    post_init([cls         |-> c,
               doflocs     |-> p,
               t           |-> tt,
               _boundaries |-> bnd,
               _subdomains |-> sub,
               elem        |-> ClassDefaults(c).elem,
               affine      |-> ClassDefaults(c).affine,
               validate    |-> FALSE,
               sort_t      |-> ClassDefaults(c).sort_t])

\* dataclasses.replace(m, doflocs=p): a new instance of type(m) with the
\* field values of m (the references included) but doflocs, then __post_init__
replace_doflocs(m, p) == post_init([m EXCEPT !.doflocs = p])

\* dataclasses.replace(m, doflocs=p, t=tt)
replace_doflocs_t(m, p, tt) == post_init([m EXCEPT !.doflocs = p, !.t = tt])

\* Mesh.nelements
nelements(m) == NCols(m.t)

\* the coordinates of the local node r (1-based) of the element e (1-based)
NodeCoords(m, r, e) == Col(m.doflocs, m.t[r][e])

-----------------------------------------------------------------------------
(* scaled, translated, mirrored *)

\* an argument is given with its Python type: [type |-> "float", v |-> x],
\* [type |-> "tuple", v |-> a sequence], [type |-> "int", v |-> n],
\* [type |-> "ndarray", v |-> a sequence]
isfloat(x) == x.type = "float"

\* Mesh.scaled(factors): the new instance
scaled(m, factors) ==
    LET f == IF isfloat(factors)
             THEN SeqGen(NRows(m.doflocs), LAMBDA i : factors.v)
             ELSE factors.v
    IN  replace_doflocs(m, SeqGen(Len(f), LAMBDA itr :
            SeqGen(NCols(m.doflocs), LAMBDA v : m.doflocs[itr][v] * f[itr])))

\* Mesh.translated(diffs): the new instance
translated(m, diffs) ==
    replace_doflocs(m, SeqGen(Len(diffs), LAMBDA itr :
        SeqGen(NCols(m.doflocs), LAMBDA v : m.doflocs[itr][v] + diffs[itr])))

Abs(x) == IF x < 0 THEN -x ELSE x

\* np.dot(a, b) of two vectors
dot(a, b) ==
    LET RECURSIVE S(_)
        S(k) == IF k = 0 THEN 0 ELSE S(k - 1) + a[k] * b[k]
    IN  S(Len(a))

\* np.linalg.norm(n) of a vector with exactly one non-zero component (the
\* normals considered are multiples of the coordinate axes)
norm(n) == Abs(dot(n, SeqGen(Len(n), LAMBDA i : 1)))

\* the normals considered: the non-zero multiples of the coordinate axes
AxisNormals(d) ==
    {[i \in 1..d |-> IF i = k THEN c ELSE 0] : k \in 1..d, c \in {-1, 2}}

\* Mesh.mirrored(normal, point): the new instance; point is <<>> for None
mirrored(m, normal, point) ==
    LET p0 == IF point = <<>> THEN SeqGen(dim(m), LAMBDA i : 0) ELSE point
        n  == SeqGen(Len(normal), LAMBDA i : normal[i] \div norm(normal))
    IN  replace_doflocs(m, SeqGen(NRows(m.doflocs), LAMBDA i :
            SeqGen(NCols(m.doflocs), LAMBDA v :
                LET x == Col(m.doflocs, v - 1)
                IN  m.doflocs[i][v]
                    - 2 * dot(n, SeqGen(Len(x), LAMBDA j : x[j] - p0[j])) * n[i])))

-----------------------------------------------------------------------------
(* remove_elements, join, refinement.  An operation that can raise yields   *)
(* [exc |-> the exception] or [exc |-> "none", val |-> the new instance].   *)

Raise(e) == [exc |-> e]

Return(v) == [exc |-> "none", val |-> v]

\* the sorted distinct values of a two-dimensional integer array
np_unique_flat(A) ==
    SortedSet(UNION {Range(A[r]) : r \in 1..NRows(A)}, LAMBDA a, b : a < b)

\* np.delete(tt, element_indices, axis=1)
np_delete(tt, element_indices) ==
    LET keep == SortedSet({e \in 1..NCols(tt) : (e - 1) \notin Range(element_indices)},
                          LAMBDA a, b : a < b)
    IN  SeqGen(NRows(tt), LAMBDA r : SeqGen(Len(keep), LAMBDA k : tt[r][keep[k]]))

\* A[:, ix] for an index array ix
TakeCols(A, ix) ==
    SeqGen(NRows(A), LAMBDA r : SeqGen(Len(ix), LAMBDA k : A[r][ix[k] + 1]))

\* Mesh._reix(ix) for a non-empty ix: the pair (self.p[:, ixuniq], t[ix])
_reix(m, ix) ==
    LET ixuniq == np_unique_flat(ix)
        tz     == Scatter(SeqGen(SetMax(Range(ixuniq)) + 1, LAMBDA i : 0), ixuniq,
                          SeqGen(Len(ixuniq), LAMBDA k : k - 1))
    IN  <<TakeCols(m.doflocs, ixuniq),
          SeqGen(NRows(ix), LAMBDA r : SeqGen(NCols(ix), LAMBDA e : tz[ix[r][e] + 1]))>>

\* Mesh.remove_elements(element_indices); np.max of an empty array raises
\* ValueError in _reix
remove_elements(m, element_indices) ==
    LET ix == np_delete(m.t, element_indices)
    IN  IF NCols(ix) = 0 THEN Raise("ValueError")
        ELSE Return(replace_doflocs_t(m, _reix(m, ix)[1], _reix(m, ix)[2]))

\* the columns of an array
Cols(A) == SeqGen(NCols(A), LAMBDA c : Col(A, c - 1))

\* Mesh.__add__ without the np.unique of lines 390-393: the vertices of both
\* operands are kept, coinciding or not
__add__keeping_duplicates(self, other) ==
    IF ~isinstance(other, self.cls) THEN Raise("TypeError")
    ELSE LET np1 == NCols(self.doflocs)
             tt  == SeqGen(NRows(self.t), LAMBDA r :
                        SeqGen(NCols(self.t) + NCols(other.t), LAMBDA e :
                            IF e <= NCols(self.t) THEN self.t[r][e]
                            ELSE other.t[r][e - NCols(self.t)] + np1))
         IN  Return(Construct(self.cls,
                              FromCols(Cols(self.doflocs) \o Cols(other.doflocs),
                                       NRows(self.doflocs)), tt, 0, 0))

\* Mesh.__add__(self, other)
__add__(self, other) ==
    IF ~isinstance(other, self.cls) THEN Raise("TypeError")
    ELSE LET pc2 == Cols(self.doflocs) \o Cols(other.doflocs)
             np1 == NCols(self.doflocs)
             u   == np_unique_cols(pc2)
             tt  == SeqGen(NRows(self.t), LAMBDA r :
                        SeqGen(NCols(self.t) + NCols(other.t), LAMBDA e :
                            IF e <= NCols(self.t) THEN u.inverse[self.t[r][e] + 1]
                            ELSE u.inverse[other.t[r][e - NCols(self.t)] + np1 + 1]))
         IN  Return(Construct(self.cls, FromCols(u.uniq, NRows(self.doflocs)), tt, 0, 0))

\* the classes whose _uniform and _adaptive are modelled (the base class
\* raises NotImplementedError in both)
Refinable == {"MeshLine1"}

\* MeshLine1._uniform: every element is split at its midpoint
_uniform(m) ==
    LET nv == NCols(m.doflocs)
        ne == NCols(m.t)
        newp == << m.doflocs[1] \o
                   SeqGen(ne, LAMBDA e : (m.doflocs[1][m.t[1][e] + 1]
                                          + m.doflocs[1][m.t[2][e] + 1]) \div 2) >>
        newt == << SeqGen(2 * ne, LAMBDA k : IF k % 2 = 1 THEN m.t[1][(k + 1) \div 2]
                                             ELSE nv + (k \div 2) - 1),
                   SeqGen(2 * ne, LAMBDA k : IF k % 2 = 1 THEN nv + ((k + 1) \div 2) - 1
                                             ELSE m.t[2][k \div 2]) >>
    IN  post_init([m EXCEPT !.doflocs = newp, !.t = newt,
                            !._boundaries = 0, !._subdomains = 0])

\* MeshLine1._adaptive(marked): the marked elements are split at their
\* midpoints, the others come first in the new connectivity
_adaptive(m, marked) ==
    LET nv == NCols(m.doflocs)
        ne == NCols(m.t)
        nm == Len(marked)
        nonmarked == SortedSet({e \in 0..(ne - 1) : e \notin Range(marked)},
                               LAMBDA a, b : a < b)
        mid(k) == nv + k - 1
        newp == << m.doflocs[1] \o
                   SeqGen(nm, LAMBDA k : (m.doflocs[1][m.t[1][marked[k] + 1] + 1]
                                          + m.doflocs[1][m.t[2][marked[k] + 1] + 1]) \div 2) >>
        newt == << SeqGen(Len(nonmarked), LAMBDA k : m.t[1][nonmarked[k] + 1])
                     \o SeqGen(nm, LAMBDA k : m.t[1][marked[k] + 1])
                     \o SeqGen(nm, LAMBDA k : mid(k)),
                   SeqGen(Len(nonmarked), LAMBDA k : m.t[2][nonmarked[k] + 1])
                     \o SeqGen(nm, LAMBDA k : mid(k))
                     \o SeqGen(nm, LAMBDA k : m.t[2][marked[k] + 1]) >>
    IN  post_init([m EXCEPT !.doflocs = newp, !.t = newt])

isint(x) == x.type = "int"

\* Mesh.refined(times_or_ix): the instances created one after the other, the
\* last of which is returned; none when the loop body never runs
refined_new(m, times_or_ix) ==
    IF isint(times_or_ix)
    THEN LET RECURSIVE Loop_(_, _)
             Loop_(cur, n) == IF n <= 0 THEN <<>>
                              ELSE <<_uniform(cur)>> \o Loop_(_uniform(cur), n - 1)
         IN  Loop_(m, times_or_ix.v)
    ELSE <<_adaptive(m, times_or_ix.v)>>

-----------------------------------------------------------------------------
(* Named boundaries and subdomains *)

\* a test lambda x: x[axis] == c or lambda x: x[axis] < c is [axis, op, c]
\* applied to the midpoint sum / k, compared exactly
TestHolds(test, sum, k) ==
    IF test.op = "eq" THEN sum[test.axis + 1] = test.c * k
    ELSE sum[test.axis + 1] < test.c * k

\* the sum of the vertex coordinates of column c (1-based) of an index array
MidpointSum(m, A, c) ==
    SeqGen(dim(m), LAMBDA itr :
        LET RECURSIVE S(_)
            S(r) == IF r = 0 THEN 0 ELSE S(r - 1) + m.doflocs[itr][A[r][c] + 1]
        IN  S(NRows(A)))

\* np.nonzero(test(midp))[0] for the midpoints of the columns of A
SatisfyingCols(m, A, test) ==
    SortedSet({c - 1 : c \in {d \in 1..NCols(A) :
                                TestHolds(test, MidpointSum(m, A, d), NRows(A))}},
              LAMBDA a, b : a < b)

\* np.intersect1d(a, b)
intersect1d(a, b) == SortedSet(Range(a) \cap Range(b), LAMBDA x, y : x < y)

\* Mesh.f2t of an instance
f2t_of(m) ==
    build_inverse(m.t, build_entities(m.t, refdom_facets(elem_refdom(m.elem)), TRUE)[2])

\* Mesh.facets_satisfying(test, boundaries_only)
facets_satisfying(m, test, boundaries_only) ==
    LET fs == SatisfyingCols(m, facets_of(m), test)
    IN  IF boundaries_only THEN intersect1d(fs, boundary_facets(f2t_of(m))) ELSE fs

\* Mesh.elements_satisfying(test)
elements_satisfying(m, test) == SatisfyingCols(m, m.t, test)

\* {**a, **b}
MergeDicts(a, b) ==
    [n \in DOMAIN a \cup DOMAIN b |-> IF n \in DOMAIN b THEN b[n] ELSE a[n]]

\* the dict a field refers to, {} for None
DictOrEmpty(ref) == IF ref = 0 THEN <<>> ELSE dicts[ref]

\* the dict with_boundaries(boundaries) builds for the new instance
with_boundaries_dict(m, boundaries) ==
    MergeDicts(DictOrEmpty(m._boundaries),
               [n \in DOMAIN boundaries |-> facets_satisfying(m, boundaries[n], TRUE)])

\* the dict with_subdomains(subdomains) builds for the new instance
with_subdomains_dict(m, subdomains) ==
    MergeDicts(DictOrEmpty(m._subdomains),
               [n \in DOMAIN subdomains |-> elements_satisfying(m, subdomains[n])])

-----------------------------------------------------------------------------
(* The meshes considered and the calls made on them *)

\* the connectivity of a strip of ne elements: element e has the nodes
\* e, e + 1, ... in ascending or (flip) descending order
StripT(nn, ne, flip) ==
    SeqGen(nn, LAMBDA r : SeqGen(ne, LAMBDA e :
        IF flip THEN e - 1 + nn - r ELSE e - 1 + r - 1))

\* the vertex v (0-based) of a strip: on a line at 2 v, in the plane on the
\* lattice points (0, 0), (2, 0), (0, 2), (2, 2), (0, 4), ...
StripPoint(d, v) == IF d = 1 THEN <<2 * v>> ELSE <<2 * (v % 2), 2 * (v \div 2)>>

\* the vertices of a strip of nv vertices, and one more that no element
\* refers to when extra
StripP(d, nv, extra) ==
    FromCols(SeqGen(nv + (IF extra THEN 1 ELSE 0), LAMBDA v : StripPoint(d, v - 1)), d)

ClassDim(c) == IF c = "MeshLine1" THEN 1 ELSE 2

\* an instance of class c on a strip, as its constructor builds it
StripMesh(c, ne, flip, extra, bnd, sub) ==
    LET nn == ClassDim(c) + 1
    IN  Construct(c, StripP(ClassDim(c), ne + nn - 1, extra), StripT(nn, ne, flip), bnd, sub)

\* the names of boundaries and subdomains
Names == {"left", "right"}

\* the tests used to name boundaries and subdomains
Tests == {[axis |-> 0, op |-> "eq", c |-> 0], [axis |-> 0, op |-> "lt", c |-> 2]}

\* the dicts passed to with_boundaries and with_subdomains
TestDicts == UNION {[S -> Tests] : S \in (SUBSET Names) \ {{}}}

\* the first instance is any strip mesh, without named sets, with the name
\* "left" on its first element and facet, or with it on its last element and
\* on the facet ne; the second is a one-element strip of any class
InitOps ==
    /\ \E c \in MeshClasses, ne \in 1..MaxElems, flip \in BOOLEAN, extra \in BOOLEAN,
          named \in {"none", "first", "last"}, c2 \in MeshClasses :
          /\ dicts = CASE named = "none"  -> <<>>
                       [] named = "first" -> << [n \in {"left"} |-> <<0>>],
                                                [n \in {"left"} |-> <<0>>] >>
                       [] named = "last"  -> << [n \in {"left"} |-> <<ne>>],
                                                [n \in {"left"} |-> <<ne - 1>>] >>
          /\ meshes = << StripMesh(c, ne, flip, extra,
                                   IF named = "none" THEN 0 ELSE 1,
                                   IF named = "none" THEN 0 ELSE 2),
                         StripMesh(c2, 1, FALSE, FALSE, 0, 0) >>
    /\ call = [op |-> "none"]
    /\ phase = "fresh"
    /\ MeshIdle
    /\ AsmIdle
    /\ IoIdle

\* the call record: the operation, the operand(s) by position, the argument,
\* the position of the instance returned (0 when the call raised), the
\* exception raised, and the instances, the dicts and the call record as they
\* were before the call
Called(op, self, arg, ret, e) ==
    [op |-> op, self |-> self, arg |-> arg, ret |-> ret, exc |-> e,
     pre |-> [meshes |-> meshes, dicts |-> dicts, call |-> call]]

\* a call that returns the new instance m
ReturnNew(op, self, arg, m) ==
    /\ meshes' = Append(meshes, m)
    /\ call' = Called(op, self, arg, Len(meshes) + 1, "none")

\* a call that raises
Raises(op, self, arg, e) ==
    /\ meshes' = meshes
    /\ call' = Called(op, self, arg, 0, e)

\* m.scaled(factors)
Scaled ==
    /\ phase = "fresh"
    /\ \/ \E x \in {2} :
             LET factors == [type |-> "float", v |-> x]
             IN  ReturnNew("scaled", 1, factors, scaled(meshes[1], factors))
       \/ \E x \in [1..dim(meshes[1]) -> {-1, 2}] :
             LET factors == [type |-> "tuple", v |-> x]
             IN  ReturnNew("scaled", 1, factors, scaled(meshes[1], factors))
    /\ phase' = "transformed"
    /\ UNCHANGED <<dicts, meshvars, asmvars, iovars>>

\* m.translated(diffs)
Translated ==
    /\ phase = "fresh"
    /\ \E diffs \in [1..dim(meshes[1]) -> {-2, 2}] :
          ReturnNew("translated", 1, diffs, translated(meshes[1], diffs))
    /\ phase' = "transformed"
    /\ UNCHANGED <<dicts, meshvars, asmvars, iovars>>

\* m.mirrored(normal, point)
Mirrored ==
    /\ phase = "fresh"
    /\ \E normal \in AxisNormals(dim(meshes[1])),
          point \in {<<>>, [i \in 1..dim(meshes[1]) |-> 2]} :
          ReturnNew("mirrored", 1, <<normal, point>>, mirrored(meshes[1], normal, point))
    /\ phase' = "transformed"
    /\ UNCHANGED <<dicts, meshvars, asmvars, iovars>>

\* m.refined(times_or_ix).  With a count below one the loop body never runs
\* and refined returns m itself.
Refined ==
    /\ phase = "fresh"
    /\ \/ \E n \in -1..1 :
             LET times_or_ix == [type |-> "int", v |-> n]
                 new == refined_new(meshes[1], times_or_ix)
             IN  /\ n <= 0 \/ meshes[1].cls \in Refinable
                 /\ meshes' = meshes \o new
                 /\ call' = Called("refined", 1, times_or_ix,
                                   IF new = <<>> THEN 1 ELSE Len(meshes) + Len(new), "none")
       \/ \E ix \in {<<0>>, <<nelements(meshes[1]) - 1>>} :
             LET times_or_ix == [type |-> "ndarray", v |-> ix]
             IN  /\ meshes[1].cls \in Refinable
                 /\ ReturnNew("refined", 1, times_or_ix, refined_new(meshes[1], times_or_ix)[1])
    /\ phase' = "transformed"
    /\ UNCHANGED <<dicts, meshvars, asmvars, iovars>>

\* m.remove_elements(element_indices)
RemoveElements ==
    /\ phase = "fresh"
    /\ \E S \in SUBSET (0..(nelements(meshes[1]) - 1)) :
          LET element_indices == SortedSet(S, LAMBDA a, b : a < b)
              r == remove_elements(meshes[1], element_indices)
          IN  IF r.exc = "none"
              THEN ReturnNew("remove_elements", 1, element_indices, r.val)
              ELSE Raises("remove_elements", 1, element_indices, r.exc)
    /\ phase' = "transformed"
    /\ UNCHANGED <<dicts, meshvars, asmvars, iovars>>

\* with_boundaries updating the dict of the operand in place when it has one
WithBoundaries_inplace ==
    /\ phase = "fresh"
    /\ \E boundaries \in TestDicts :
          LET d == with_boundaries_dict(meshes[1], boundaries)
          IN  IF meshes[1]._boundaries = 0
              THEN /\ dicts' = Append(dicts, d)
                   /\ ReturnNew("with_boundaries", 1, boundaries,
                                post_init([meshes[1] EXCEPT !._boundaries = Len(dicts) + 1]))
              ELSE /\ dicts' = [dicts EXCEPT ![meshes[1]._boundaries] = d]
                   /\ ReturnNew("with_boundaries", 1, boundaries, post_init(meshes[1]))
    /\ phase' = "transformed"
    /\ UNCHANGED <<meshvars, asmvars, iovars>>

\* m.with_boundaries(boundaries): a new dict, a new instance referring to it
WithBoundaries ==
    /\ phase = "fresh"
    /\ \E boundaries \in TestDicts :
          /\ dicts' = Append(dicts, with_boundaries_dict(meshes[1], boundaries))
          /\ ReturnNew("with_boundaries", 1, boundaries,
                       post_init([meshes[1] EXCEPT !._boundaries = Len(dicts) + 1]))
    /\ phase' = "transformed"
    /\ UNCHANGED <<meshvars, asmvars, iovars>>

\* m.define_boundary(name, test, boundaries_only): no instance is created and
\* nothing is returned; the field _boundaries of m becomes a new empty dict
\* when it was None, and the entry name of the dict it refers to is assigned
\* in place
DefineBoundary ==
    /\ phase = "fresh"
    /\ \E name \in Names, test \in Tests, boundaries_only \in BOOLEAN :
          LET fs == facets_satisfying(meshes[1], test, boundaries_only)
              entry == [n \in {name} |-> fs]
          IN  /\ IF meshes[1]._boundaries = 0
                 THEN /\ dicts' = Append(dicts, entry)
                      /\ meshes' = [meshes EXCEPT ![1]._boundaries = Len(dicts) + 1]
                 ELSE /\ dicts' = [dicts EXCEPT ![meshes[1]._boundaries] =
                                       MergeDicts(@, entry)]
                      /\ meshes' = meshes
              /\ call' = Called("define_boundary", 1,
                                [name |-> name, test |-> test,
                                 boundaries_only |-> boundaries_only],
                                0, "none")
    /\ phase' = "transformed"
    /\ UNCHANGED <<meshvars, asmvars, iovars>>

\* m.with_subdomains(subdomains)
WithSubdomains ==
    /\ phase = "fresh"
    /\ \E subdomains \in TestDicts :
          /\ dicts' = Append(dicts, with_subdomains_dict(meshes[1], subdomains))
          /\ ReturnNew("with_subdomains", 1, subdomains,
                       post_init([meshes[1] EXCEPT !._subdomains = Len(dicts) + 1]))
    /\ phase' = "transformed"
    /\ UNCHANGED <<meshvars, asmvars, iovars>>

\* a + b for any two of the instances
Join ==
    /\ phase \in {"fresh", "transformed"}
    /\ \E a \in 1..Len(meshes), b \in 1..Len(meshes) :
          LET r == __add__(meshes[a], meshes[b])
          IN  IF r.exc = "none"
              THEN ReturnNew("join", a, b, r.val)
              ELSE Raises("join", a, b, r.exc)
    /\ phase' = "joined"
    /\ UNCHANGED <<dicts, meshvars, asmvars, iovars>>

NextOps ==
    \/ Scaled
    \/ Translated
    \/ Mirrored
    \/ Refined
    \/ RemoveElements
    \/ WithBoundaries
    \/ WithSubdomains
    \/ DefineBoundary
    \/ Join

SpecOps == InitOps /\ [][NextOps]_vars

-----------------------------------------------------------------------------
(* Properties of the mesh transformations *)

\* the transformations that produce a mesh from a mesh
Transformations ==
    {"refined", "scaled", "translated", "mirrored", "remove_elements", "join"}

\* the operands of the last call, by position
Operands == IF call.op = "join" THEN {call.self, call.arg} ELSE {call.self}

\* every instance and every dict that existed before the last call is as it
\* was: coordinates, connectivity, named boundaries and named subdomains
OperandsUnchanged ==
    /\ \A i \in 1..Len(call.pre.meshes) : meshes[i] = call.pre.meshes[i]
    /\ \A k \in 1..Len(call.pre.dicts) : dicts[k] = call.pre.dicts[k]

\* the last call returned an instance that did not exist before it
ReturnedNewInstance ==
    /\ call.ret \notin Operands
    /\ call.ret > Len(call.pre.meshes)
    /\ call.ret <= Len(meshes)

\* the instance returned differs from the operand in its coordinates only
OnlyCoordinatesChanged ==
    LET m == call.pre.meshes[call.self]
        r == meshes[call.ret]
    IN  /\ r.t = m.t
        /\ r._boundaries = m._boundaries
        /\ r._subdomains = m._subdomains
        /\ DictOrEmpty(r._boundaries) = DictOrEmpty(m._boundaries)
        /\ DictOrEmpty(r._subdomains) = DictOrEmpty(m._subdomains)
        /\ r.cls = m.cls
        /\ r.elem = m.elem
        /\ r.affine = m.affine
        /\ r.validate = m.validate
        /\ r.sort_t = m.sort_t

\* C11: each of refined (any integer count, any index array), scaled,
\* translated, mirrored, remove_elements and join returns an instance
\* distinct from its operands and leaves the operands' coordinates,
\* connectivity and named sets unchanged; scaled, translated and mirrored
\* change nothing but the coordinates.
C11_TransformationsReturnNewInstance ==
    call.op \in Transformations =>
        /\ OperandsUnchanged
        /\ call.exc = "none" => ReturnedNewInstance
        /\ call.op \in {"scaled", "translated", "mirrored"} => OnlyCoordinatesChanged

\* the same for every call but refined with a count below one, whose loop
\* body never runs
NewInstanceUnlessNoRefinement ==
    (call.op \in Transformations
     /\ ~(call.op = "refined" /\ isint(call.arg) /\ call.arg.v <= 0)) =>
        /\ OperandsUnchanged
        /\ call.exc = "none" => ReturnedNewInstance
        /\ call.op \in {"scaled", "translated", "mirrored"} => OnlyCoordinatesChanged

\* refined with a count below one returns its operand
RefinedZeroReturnsOperand ==
    (call.op = "refined" /\ isint(call.arg) /\ call.arg.v <= 0) =>
        /\ call.ret = call.self
        /\ meshes = call.pre.meshes


\* the operands and the result of the last call, when it was a join that
\* returned
JoinReturned == call.op = "join" /\ call.exc = "none"

JoinLeft == call.pre.meshes[call.self]

JoinRight == call.pre.meshes[call.arg]

JoinResult == meshes[call.ret]

\* the element e of the result and the element it comes from: [m, e]
JoinSource(e) ==
    IF e <= nelements(JoinLeft) THEN [m |-> JoinLeft, e |-> e]
    ELSE [m |-> JoinRight, e |-> e - nelements(JoinLeft)]

\* the element e of the result has, at every local node, the coordinates it
\* has in its source mesh
SameNodesPerLocalNode(e) ==
    \A r \in 1..NRows(JoinResult.t) :
        NodeCoords(JoinResult, r, e) = NodeCoords(JoinSource(e).m, r, JoinSource(e).e)

\* the element e of the result has the node coordinates it has in its source
\* mesh, in some order of the local nodes
SameNodeSet(e) ==
    {NodeCoords(JoinResult, r, e) : r \in 1..NRows(JoinResult.t)}
        = {NodeCoords(JoinSource(e).m, r, JoinSource(e).e) : r \in 1..NRows(JoinResult.t)}

\* no two vertices of the result coincide, and its vertices are the vertices
\* of the operands
VerticesCountedOnce ==
    /\ \A v, w \in 1..NCols(JoinResult.doflocs) :
          v # w => Col(JoinResult.doflocs, v - 1) # Col(JoinResult.doflocs, w - 1)
    /\ Range(Cols(JoinResult.doflocs))
          = Range(Cols(JoinLeft.doflocs)) \cup Range(Cols(JoinRight.doflocs))

\* the default MeshTet (skfem/mesh/mesh_tet_1.py): the cube of side 2 (one
\* lattice spacing) split into five tetrahedra
DefaultMeshTet ==
    Construct("MeshTet1",
              << <<0, 0, 0, 2, 0, 2, 2, 2>>,
                 <<0, 0, 2, 0, 2, 0, 2, 2>>,
                 <<0, 2, 0, 0, 2, 2, 0, 2>> >>,
              << <<0, 3, 2, 2, 1>>,
                 <<1, 5, 3, 3, 2>>,
                 <<2, 1, 6, 1, 4>>,
                 <<3, 7, 7, 7, 7>> >>, 0, 0)

\* the example of the docstring of mirrored: m1 + m2 + m3 + m4
MirrorExample ==
    LET m1 == DefaultMeshTet
        m2 == mirrored(m1, <<1, 0, 0>>, <<>>)
        m3 == mirrored(m1, <<0, 1, 0>>, <<>>)
        m4 == mirrored(m1, <<0, 0, 1>>, <<>>)
    IN  __add__(__add__(__add__(m1, m2).val, m3).val, m4).val

\* (m.nvertices, m.nelements) of the example
MirrorExampleCounts == <<nvertices(MirrorExample), nelements(MirrorExample)>>

\* C13 as stated: the join has nelements(m1) + nelements(m2) elements, each
\* with the same coordinates per local node as in its source mesh, no two
\* vertices of the result coincide, and the documented example has 20
\* vertices and 20 elements.
C13_JoinKeepsLocalNodes ==
    JoinReturned =>
        /\ nelements(JoinResult) = nelements(JoinLeft) + nelements(JoinRight)
        /\ \A e \in 1..nelements(JoinResult) : SameNodesPerLocalNode(e)
        /\ VerticesCountedOnce
        /\ MirrorExampleCounts = <<20, 20>>

\* C13 amended: the join has nelements(m1) + nelements(m2) elements, each
\* with the same node coordinates as in its source mesh - at the same local
\* nodes when the class of the result does not sort its connectivity
\* (sort_t false), in ascending order of the new vertex numbers when it
\* does -, no two vertices of the result coincide, and the documented
\* example has 20 vertices and 20 elements.
C13_JoinKeepsNodeSets ==
    JoinReturned =>
        /\ nelements(JoinResult) = nelements(JoinLeft) + nelements(JoinRight)
        /\ \A e \in 1..nelements(JoinResult) :
              /\ SameNodeSet(e)
              /\ ~JoinResult.sort_t => SameNodesPerLocalNode(e)
              /\ JoinResult.sort_t =>
                    \A r \in 1..(NRows(JoinResult.t) - 1) :
                        JoinResult.t[r][e] < JoinResult.t[r + 1][e]
        /\ VerticesCountedOnce
        /\ MirrorExampleCounts = <<20, 20>>

\* a mesh joined with a mirror image that shares some of its vertices, in a
\* class that sorts the connectivity, where the sort moved a node of an
\* element to another local position
C13_Witness ==
    /\ JoinReturned
    /\ call.self # call.arg
    /\ call.pre.call.op = "mirrored"
    /\ NCols(JoinResult.doflocs) < NCols(JoinLeft.doflocs) + NCols(JoinRight.doflocs)
    /\ NCols(JoinResult.doflocs) > NCols(JoinLeft.doflocs)
    /\ JoinResult.sort_t
    /\ \E e \in 1..nelements(JoinResult) : ~SameNodesPerLocalNode(e)


\* the facets (0-based) of m that belong to exactly one element
FacetsOfOneElement(m) ==
    LET t2f == build_entities(m.t, refdom_facets(elem_refdom(m.elem)), TRUE)[2]
    IN  {f \in 0..(NCols(facets_of(m)) - 1) :
            Cardinality({<<k, e>> \in (1..NRows(t2f)) \X (1..NCols(t2f)) :
                            t2f[k][e] = f}) = 1}

\* the index array a lists exactly the members of S, ascending
ListsExactly(a, S) ==
    /\ Range(a) = S
    /\ \A i \in 1..(Len(a) - 1) : a[i] < a[i + 1]

\* the named sets new are the named sets old plus one entry per name of the
\* argument d, which lists exactly the members of Candidates that satisfy
\* the test of the name
NamedSetsExtended(new, old, d, Candidates, Satisfies(_, _)) ==
    /\ DOMAIN new = DOMAIN old \cup DOMAIN d
    /\ \A n \in DOMAIN old \ DOMAIN d : new[n] = old[n]
    /\ \A n \in DOMAIN d :
          ListsExactly(new[n], {x \in Candidates : Satisfies(x, d[n])})

\* C17: with_boundaries(d) returns a new mesh whose named boundaries are the
\* operand's plus, per name of d, exactly the boundary facets whose midpoint
\* satisfies the test, replacing an entry of the same name; with_subdomains(d)
\* likewise with the elements whose midpoint satisfies the test; the operand's
\* named sets, coordinates and connectivity are unchanged, whether it had
\* named sets or not.
C17_NamedSetsAdded ==
    call.op \in {"with_boundaries", "with_subdomains"} =>
        LET m == call.pre.meshes[call.self]
            r == meshes[call.ret]
        IN  /\ ReturnedNewInstance
            /\ OperandsUnchanged
            /\ r.doflocs = m.doflocs
            /\ r.t = m.t
            /\ call.op = "with_boundaries" =>
                  /\ r._boundaries # 0
                  /\ r._subdomains = m._subdomains
                  /\ NamedSetsExtended(dicts[r._boundaries],
                        IF m._boundaries = 0 THEN <<>> ELSE call.pre.dicts[m._boundaries],
                        call.arg, FacetsOfOneElement(m),
                        LAMBDA f, test : TestHolds(test, MidpointSum(m, facets_of(m), f + 1),
                                                   NRows(facets_of(m))))
            /\ call.op = "with_subdomains" =>
                  /\ r._subdomains # 0
                  /\ r._boundaries = m._boundaries
                  /\ NamedSetsExtended(dicts[r._subdomains],
                        IF m._subdomains = 0 THEN <<>> ELSE call.pre.dicts[m._subdomains],
                        call.arg, 0..(nelements(m) - 1),
                        LAMBDA e, test : TestHolds(test, MidpointSum(m, m.t, e + 1),
                                                   NRows(m.t)))

\* with_boundaries on a mesh that has the boundary "left", with a dict that
\* names "left" (replaced by another set of facets) and "right" (added, not
\* every boundary facet satisfying its test)
C17_Witness ==
    /\ call.op = "with_boundaries"
    /\ call.pre.meshes[call.self]._boundaries # 0
    /\ DOMAIN call.arg = {"left", "right"}
    /\ dicts[meshes[call.ret]._boundaries]["left"]
          # dicts[call.pre.meshes[call.self]._boundaries]["left"]
    /\ dicts[meshes[call.ret]._boundaries]["right"] # <<>>
    /\ Len(dicts[meshes[call.ret]._boundaries]["right"])
          < Cardinality(FacetsOfOneElement(call.pre.meshes[call.self]))


\* a call that raised produced no instance and changed nothing
NothingProduced ==
    /\ call.ret = 0
    /\ meshes = call.pre.meshes
    /\ dicts = call.pre.dicts

\* C19: a + b raises TypeError unless a and b are meshes of the same type;
\* a + b raises if and only if b + a raises; when it raises, no mesh is
\* produced and neither operand is modified.
C19_JoinRaisesUnlessSameType ==
    call.op = "join" =>
        /\ call.exc = "TypeError" <=> JoinLeft.cls # JoinRight.cls
        /\ call.exc = "TypeError" <=> __add__(JoinRight, JoinLeft).exc = "TypeError"
        /\ call.exc # "none" => NothingProduced
        /\ OperandsUnchanged

\* what holds of the code: a + b raises TypeError exactly when b is not an
\* instance of the class of a (of that class or of a subclass of it)
JoinRaisesUnlessInstance ==
    call.op = "join" =>
        /\ call.exc = "TypeError" <=> ~issubclass(JoinRight.cls, JoinLeft.cls)
        /\ call.exc \in {"none", "TypeError"}
        /\ call.exc # "none" => NothingProduced
        /\ OperandsUnchanged

\* a + b returned a mesh although b is of a subclass of the class of a, and
\* b + a raises
JoinAcceptsSubclass ==
    /\ JoinReturned
    /\ JoinLeft.cls = "MeshTri1"
    /\ JoinRight.cls = "MeshTri2"
    /\ JoinResult.cls = "MeshTri1"
    /\ __add__(JoinRight, JoinLeft).exc = "TypeError"


\* the elements (0-based) of the operand that the last remove_elements call
\* was not asked to remove, ascending
Remaining ==
    SortedSet({e \in 0..(nelements(call.pre.meshes[call.self]) - 1) :
                  e \notin Range(call.arg)}, LAMBDA a, b : a < b)

\* the vertices (0-based) of the operand that the remaining elements refer
\* to, ascending
Referenced ==
    LET m == call.pre.meshes[call.self]
    IN  SortedSet({m.t[r][Remaining[k] + 1] : r \in 1..NRows(m.t), k \in 1..Len(Remaining)},
                  LAMBDA a, b : a < b)

\* the mesh returned holds the remaining elements in their order, with the
\* coordinates they had at every local node, and exactly the vertices they
\* refer to, numbered from 0 in their order
RemainingElementsKept ==
    LET m == call.pre.meshes[call.self]
        r == meshes[call.ret]
    IN  /\ ReturnedNewInstance
        /\ nelements(r) = Len(Remaining)
        /\ NRows(r.t) = NRows(m.t)
        /\ \A k \in 1..Len(Remaining), n \in 1..NRows(m.t) :
              /\ NodeCoords(r, n, k) = NodeCoords(m, n, Remaining[k] + 1)
              /\ Referenced[r.t[n][k] + 1] = m.t[n][Remaining[k] + 1]
        /\ NCols(r.doflocs) = Len(Referenced)
        /\ nvertices(r) = NCols(r.doflocs)
        /\ \A j \in 1..Len(Referenced) : Col(r.doflocs, j - 1) = Col(m.doflocs, Referenced[j])

\* C20: remove_elements(ix) returns a mesh whose elements are exactly the
\* operand's elements not in ix, in their order and with unchanged node
\* coordinates per local node, and whose vertices are exactly the vertices
\* these elements refer to, renumbered from 0 in their order.
C20_RemoveElements ==
    call.op = "remove_elements" =>
        /\ call.exc = "none"
        /\ RemainingElementsKept

\* what holds of the code: the same whenever an element remains; when none
\* remains the call raises ValueError and returns nothing
RemoveElementsWhenSomeRemain ==
    call.op = "remove_elements" =>
        /\ Remaining # <<>> => (call.exc = "none" /\ RemainingElementsKept)
        /\ Remaining = <<>> => (call.exc = "ValueError" /\ NothingProduced)
        /\ OperandsUnchanged

\* an element and an unreferenced vertex were removed and the call returned
RemovedSome ==
    /\ call.op = "remove_elements"
    /\ call.exc = "none"
    /\ Len(Remaining) < nelements(call.pre.meshes[call.self])
    /\ Len(Referenced) + 1 < NCols(call.pre.meshes[call.self].doflocs)
    /\ meshes[call.ret].t # call.pre.meshes[call.self].t

\* every element was removed and the call raised
RemovedAll ==
    /\ call.op = "remove_elements"
    /\ Remaining = <<>>
    /\ call.exc = "ValueError"

-----------------------------------------------------------------------------
(* skfem/io/meshio.py: from_meshio and to_meshio.                            *)
(* A meshio.Mesh is a record: points (one per row), cells (the cell blocks   *)
(* in the iteration order of cells_dict, each [type, data] with one cell per *)
(* row), cell_sets (name -> cell type -> indices), cell_data (name, split at *)
(* its colons -> cell type -> one value per cell) and field_data (in         *)
(* iteration order, each [name, v]).  A dict is a function.  The fields      *)
(* _boundaries and _subdomains of the meshes of this section hold <<>> for   *)
(* None and <<d>> for the dict d.                                            *)

\* a meshio.Mesh passed to from_meshio has 1 .. MaxBlocks cell blocks
MaxBlocks == 2

Supported3D == {"tetra", "hexahedron", "tetra10"}

Supported2D == {"triangle", "quad", "triangle6", "quad9"}

MESH_TYPE_MAPPING(k) ==
    CASE k = "tetra"      -> "MeshTet1"
      [] k = "hexahedron" -> "MeshHex1"
      [] k = "triangle"   -> "MeshTri1"
      [] k = "quad"       -> "MeshQuad1"
      [] k = "line"       -> "MeshLine1"
      [] k = "tetra10"    -> "MeshTet2"
      [] k = "triangle6"  -> "MeshTri2"
      [] k = "quad9"      -> "MeshQuad2"

BOUNDARY_TYPE_MAPPING(k) ==
    CASE k = "line"       -> "vertex"
      [] k = "triangle"   -> "line"
      [] k = "quad"       -> "line"
      [] k = "tetra"      -> "triangle"
      [] k = "hexahedron" -> "quad"
      [] k = "tetra10"    -> "triangle"
      [] k = "triangle6"  -> "line"
      [] k = "quad9"      -> "line"

TYPE_MESH_MAPPING(c) ==
    CHOOSE k \in Supported3D \cup Supported2D \cup {"line"} : MESH_TYPE_MAPPING(k) = c

\* for k in cells: if k in S: meshio_type = k; break -- None when no key is in S
RECURSIVE FirstKeyIn(_, _)
FirstKeyIn(keys, S) ==
    IF keys = <<>> THEN "None"
    ELSE IF Head(keys) \in S THEN Head(keys)
    ELSE FirstKeyIn(Tail(keys), S)

\* the type selection taking the first supported key whatever its dimension
meshio_type_any_dimension(keys) ==
    FirstKeyIn(keys, Supported3D \cup Supported2D \cup {"line"})

\* lines 11-25: the local meshio_type after the three loops
meshio_type(keys) ==
    IF FirstKeyIn(keys, Supported3D) # "None" THEN FirstKeyIn(keys, Supported3D)
    ELSE IF FirstKeyIn(keys, Supported2D) # "None" THEN FirstKeyIn(keys, Supported2D)
    ELSE FirstKeyIn(keys, {"line"})

\* the keys of m.cells_dict in iteration order, and m.cells_dict[k]
cells_keys(m) == SeqGen(Len(m.cells), LAMBDA i : m.cells[i].type)

cells_dict(m, k) == m.cells[FirstIndex(cells_keys(m), k) + 1].data

\* the dimension of the reference domain of a class
class_dim(c) == dim([elem |-> ClassDefaults(c).elem])

\* mesh_type.strip_extra_coordinates(points): the base class keeps every
\* coordinate, the one- and two-dimensional classes keep as many as their
\* dimension
strip_extra_coordinates(c, points) ==
    SeqGen(Len(points), LAMBDA v : SubSeq(points[v], 1, class_dim(c)))

\* A[perm] for a row permutation
TakeRows(A, perm) == SeqGen(Len(perm), LAMBDA r : A[perm[r] + 1])

\* lines 29-32: the arrays p and t
import_p(m, k) ==
    FromCols(strip_extra_coordinates(MESH_TYPE_MAPPING(k), m.points),
             Len(strip_extra_coordinates(MESH_TYPE_MAPPING(k), m.points)[1]))

\* import_t applying the permutation of the export to a hexahedron
import_t_export_order(m, k) ==
    LET tt == FromCols(cells_dict(m, k), Len(cells_dict(m, k)[1]))
    IN  IF k = "hexahedron" THEN TakeRows(tt, <<0, 3, 6, 2, 1, 5, 7, 4>>) ELSE tt

import_t(m, k) ==
    LET tt == FromCols(cells_dict(m, k), Len(cells_dict(m, k)[1]))
    IN  IF k = "hexahedron" THEN TakeRows(tt, <<0, 4, 3, 1, 7, 5, 2, 6>>) ELSE tt

\* lines 35-38: the subdomains of the cell sets
cell_set_subdomains(m, k) ==
    IF DOMAIN m.cell_sets = {} THEN <<>>
    ELSE [n \in {x \in DOMAIN m.cell_sets : k \in DOMAIN m.cell_sets[x]} |->
             m.cell_sets[n][k]]

\* lines 41-43: the boundaries of the cell sets; a set lists cells of the
\* boundary type, which are looked up among the facets of the mesh
cell_set_boundaries(m, k, mtmp) ==
    LET bnd_type == BOUNDARY_TYPE_MAPPING(k)
    IN  IF DOMAIN m.cell_sets = {} \/ bnd_type \notin Range(cells_keys(m)) THEN <<>>
        ELSE [n \in {x \in DOMAIN m.cell_sets : bnd_type \in DOMAIN m.cell_sets[x]} |->
                 LET v == {np_sort(cells_dict(m, bnd_type)[i + 1]) :
                              i \in Range(m.cell_sets[n][bnd_type])}
                 IN  SortedSet({i \in 0..(NCols(facets_of(mtmp)) - 1) :
                                   Col(facets_of(mtmp), i) \in v},
                               LAMBDA a, b : a < b)]

\* find_tagname(tag), lines 50-54
RECURSIVE find_tagname(_, _)
find_tagname(field_data, tag) ==
    IF field_data = <<>> THEN "None"
    ELSE IF Head(field_data).v[1] = tag THEN Head(field_data).name
    ELSE find_tagname(Tail(field_data), tag)

\* the dict the loops of lines 55-57 and 65-67 fill: for every tag of tags, in
\* ascending order, the entry of its name is set to the members that carry it
tag_sets(field_data, tags, members) ==
    LET names == {find_tagname(field_data, tag) : tag \in Range(tags)}
    IN  [n \in names |->
            LET tag == SetMax({x \in Range(tags) : find_tagname(field_data, x) = n})
            IN  SeqGen(Len(nonzero_eq(tags, tag)),
                       LAMBDA j : members[nonzero_eq(tags, tag)[j] + 1])]

physical == <<"gmsh", "physical">>

\* lines 63-67: tags = index[:, 0], which fails on an empty index, and the
\* boundaries of the tags; hits holds index[:, 1]
tag_boundaries(field_data, before, subdomains, fac, dic, hits) ==
    IF hits = <<>>
    THEN [boundaries |-> before.boundaries, subdomains |-> subdomains,
          exc |-> "IndexError"]
    ELSE [boundaries |-> tag_sets(field_data,
                                  SeqGen(Len(hits), LAMBDA j : dic[Col(fac, hits[j])]),
                                  hits),
          subdomains |-> subdomains, exc |-> "none"]

\* line 62: the boundary facets of mtmp (bf, among its facets fac) that dic
\* knows, ascending, then lines 63-67
tag_index(field_data, before, subdomains, fac, bf, dic) ==
    tag_boundaries(field_data, before, subdomains, fac, dic,
                   SortedSet({i \in Range(bf) : Col(fac, i) \in DOMAIN dic},
                             LAMBDA a, b : a < b))

\* the try block of lines 45-69: the named sets as it leaves them and the
\* exception that ended it, "none" when it ran to its end.  before holds the
\* named sets of lines 35-43; facets_is_bound says whether line 42 has
\* assigned the local facets.
tag_block(m, k, mtmp, before, facets_is_bound) ==
    LET bnd_type == BOUNDARY_TYPE_MAPPING(k)
    IN  IF physical \notin DOMAIN m.cell_data \/ k \notin DOMAIN m.cell_data[physical]
        THEN [boundaries |-> before.boundaries, subdomains |-> before.subdomains,
              exc |-> "KeyError"]
        ELSE
        LET elements_tag == m.cell_data[physical][k]
            subdomains == tag_sets(m.field_data, elements_tag,
                                   SeqGen(Len(elements_tag), LAMBDA e : e - 1))
        IN  IF bnd_type \notin DOMAIN m.cell_data[physical]
            THEN [boundaries |-> before.boundaries, subdomains |-> subdomains,
                  exc |-> IF facets_is_bound THEN "AttributeError"
                          ELSE "UnboundLocalError"]
            ELSE
            LET facets == cells_dict(m, bnd_type)
                facets_tag == m.cell_data[physical][bnd_type]
            IN  tag_index(m.field_data, before, subdomains, facets_of(mtmp),
                          boundary_facets(f2t_of(mtmp)),
                          [f \in {np_sort(facets[i]) : i \in 1..Len(facets)} |->
                              facets_tag[SetMax({i \in 1..Len(facets) :
                                                    np_sort(facets[i]) = f})]])

\* 2 ** i
RECURSIVE Pow2(_)
Pow2(i) == IF i = 0 THEN 1 ELSE 2 * Pow2(i - 1)

\* Mesh._encode_cell_data: per named subdomain the indicator of its elements,
\* per named boundary, for every element, the bit mask of its local facets
\* that belong to the boundary
encode_cell_data(mesh, mtype) ==
    LET sub == IF mesh._subdomains = <<>> THEN <<>> ELSE mesh._subdomains[1]
        bnd == IF mesh._boundaries = <<>> THEN <<>> ELSE mesh._boundaries[1]
        ne  == nelements(mesh)
        bits(name, e) ==
            LET RECURSIVE S(_)
                S(i) == IF i = 0 THEN 0
                        ELSE S(i - 1) + (IF t2f_of(mesh)[i][e] \in Range(bnd[name])
                                         THEN Pow2(i - 1) ELSE 0)
            IN  S(NRows(t2f_of(mesh)))
    IN  [key \in {<<"skfem", "s", n>> : n \in DOMAIN sub}
                 \cup {<<"skfem", "b", n>> : n \in DOMAIN bnd} |->
            [ty \in {mtype} |->
                IF key[2] = "s"
                THEN SeqGen(ne, LAMBDA e : IF (e - 1) \in Range(sub[key[3]]) THEN 1 ELSE 0)
                ELSE SeqGen(ne, LAMBDA e : bits(key[3], e))]]

\* Mesh._decode_cell_data(cell_data): the named boundaries and subdomains the
\* skfem entries of the cell data of the first block encode
decode_cell_data(mtmp, m) ==
    LET keys == {key \in DOMAIN m.cell_data : key[1] = "skfem"}
        blockdata(key) == m.cell_data[key][m.cells[1].type]
        masked(key) == {<<i, e>> \in (1..NRows(t2f_of(mtmp))) \X (1..NCols(t2f_of(mtmp))) :
                           (blockdata(key)[e] \div Pow2(i - 1)) % 2 = 1}
    IN  [boundaries |->
            [n \in {key[3] : key \in {x \in keys : x[2] = "b"}} |->
                SortedSet({t2f_of(mtmp)[x[1]][x[2]] : x \in masked(<<"skfem", "b", n>>)},
                          LAMBDA a, b : a < b)],
         subdomains |->
            [n \in {key[3] : key \in {x \in keys : x[2] = "s"}} |->
                SortedSet({e - 1 : e \in {x \in 1..Len(blockdata(<<"skfem", "s", n>>)) :
                                            blockdata(<<"skfem", "s", n>>)[x] # 0}},
                          LAMBDA a, b : a < b)]]

\* None if len(d) == 0 else d
NoneIfEmpty(d) == IF DOMAIN d = {} THEN <<>> ELSE <<d>>

\* lines 71-77: the mesh with the named sets of the try block and the decoded
\* ones, and what the import went through
from_meshio_return(k, p, tt, before, entered, tagged, decoded) ==
    [meshio_type |-> k,
     before  |-> before,
     entered |-> entered,
     tagexc  |-> tagged.exc,
     tagged  |-> [boundaries |-> tagged.boundaries, subdomains |-> tagged.subdomains],
     mesh    |-> Construct(MESH_TYPE_MAPPING(k), p, tt,
                           NoneIfEmpty(MergeDicts(tagged.boundaries, decoded.boundaries)),
                           NoneIfEmpty(MergeDicts(tagged.subdomains, decoded.subdomains)))]

\* lines 45-69, entered when the object has cell data and field data, then
\* lines 71-77
from_meshio_tags(m, k, p, tt, mtmp, before, entered) ==
    from_meshio_return(k, p, tt, before, entered,
        IF entered
        THEN tag_block(m, k, mtmp, before,
                       /\ DOMAIN m.cell_sets # {}
                       /\ BOUNDARY_TYPE_MAPPING(k) \in Range(cells_keys(m)))
        ELSE [boundaries |-> before.boundaries,
              subdomains |-> before.subdomains, exc |-> "none"],
        IF DOMAIN m.cell_data # {} THEN decode_cell_data(mtmp, m)
        ELSE [boundaries |-> <<>>, subdomains |-> <<>>])

\* lines 33-43: the temporary mesh and the named sets of the cell sets, then
\* the rest
from_meshio_sets(m, k, p, tt, mtmp) ==
    from_meshio_tags(m, k, p, tt, mtmp,
        [boundaries |-> cell_set_boundaries(m, k, mtmp),
         subdomains |-> cell_set_subdomains(m, k)],
        DOMAIN m.cell_data # {} /\ m.field_data # <<>>)

\* line 39: mtmp = mesh_type(p, t); an exception of __post_init__ leaves
\* from_meshio
from_meshio_mtmp(m, k, p, tt, mtmp) ==
    IF "exc" \in DOMAIN mtmp THEN [meshio_type |-> k, exc |-> mtmp.exc]
    ELSE from_meshio_sets(m, k, p, tt, mtmp)

from_meshio_arrays(m, k, p, tt) ==
    from_meshio_mtmp(m, k, p, tt, Construct(MESH_TYPE_MAPPING(k), p, tt, <<>>, <<>>))

\* lines 29-77 of from_meshio for the selected type k: the mesh returned, the
\* named sets before and after the try block, whether the block was entered
\* and the exception it swallowed
from_meshio_build(m, k) == from_meshio_arrays(m, k, import_p(m, k), import_t(m, k))

\* to_meshio(mesh), point_data and cell_data not given
to_meshio(mesh) ==
    LET tt == IF isinstance(mesh, "MeshHex1")
              THEN TakeRows(element_dofs(mesh), <<0, 3, 6, 2, 1, 5, 7, 4>>)
              ELSE element_dofs(mesh)
        mtype == TYPE_MESH_MAPPING(mesh.cls)
    IN  [points     |-> Cols(mesh.doflocs),
         cells      |-> << [type |-> mtype, data |-> Cols(tt)] >>,
         cell_sets  |-> <<>>,
         cell_data  |-> encode_cell_data(mesh, mtype),
         field_data |-> <<>>]


-----------------------------------------------------------------------------
(* The meshio objects and the meshes considered, and the steps of import    *)
(* and export                                                               *)

\* the cell types of the blocks: the supported ones and two others
CellTypes == Supported3D \cup Supported2D \cup {"line", "vertex", "wedge"}

\* the types whose mesh classes are modelled: the first-order ones
FirstOrderTypes == {"line", "triangle", "quad", "tetra", "hexahedron"}

\* the points of every meshio object: the corners of a cube of side 2
CubePoints ==
    SeqGen(8, LAMBDA v : <<2 * ((v - 1) % 2), 2 * (((v - 1) \div 2) % 2), 2 * ((v - 1) \div 4)>>)

\* the points of a meshio object: the corners of the cube and two more
MeshioPoints == CubePoints \o << <<1, 1, 1>>, <<1, 1, 0>> >>

\* the cells of a block of type k; onboundary chooses, for the line block,
\* between two edges on the boundary of the two triangles (one of them given
\* with descending nodes) and their common edge, and for the tetra10 block
\* between a cell of ten nodes and one that names two of its nodes twice
BlockData(k, onboundary) ==
    CASE k = "vertex"     -> << <<0>>, <<1>> >>
      [] k = "line"       -> IF onboundary THEN << <<0, 1>>, <<3, 1>> >> ELSE << <<1, 2>> >>
      [] k = "triangle"   -> << <<0, 1, 2>>, <<1, 2, 3>> >>
      [] k = "quad"       -> << <<0, 1, 3, 2>> >>
      [] k = "tetra"      -> << <<0, 1, 2, 4>> >>
      [] k = "hexahedron" -> << <<0, 1, 3, 2, 4, 5, 7, 6>> >>
      [] k = "wedge"      -> << <<0, 1, 2, 4, 5, 6>> >>
      [] k = "triangle6"  -> << <<0, 1, 2, 3, 4, 5>> >>
      [] k = "tetra10"    -> IF onboundary THEN << <<0, 1, 2, 4, 3, 5, 6, 7, 8, 9>> >>
                             ELSE << <<0, 1, 2, 4, 3, 5, 6, 7, 0, 1>> >>
      [] k = "quad9"      -> << <<0, 1, 3, 2, 4, 5, 6, 7, 8>> >>

\* the sequences of 1 .. MaxBlocks distinct cell types
KeySequences ==
    {s \in UNION {[1..n -> CellTypes] : n \in 1..MaxBlocks} :
        \A i, j \in 1..Len(s) : i # j => s[i] # s[j]}

\* the physical tags of the cells of the block at position i: 2 i - 1, 2 i
BlockTags(i, ncells) == SeqGen(ncells, LAMBDA j : 2 * (i - 1) + j)

\* the names of the physical tags 1, 2 and 3; the others have no name
FieldData ==
    << [name |-> "a", v |-> <<1, 2>>], [name |-> "b", v |-> <<2, 2>>],
       [name |-> "c", v |-> <<3, 1>>] >>

\* a meshio object with the blocks keys; tc: "none" (no cell data, no field
\* data), "physical" (gmsh:physical data on every block and field data),
\* "nofields" (the same without field data), "other" (cell data under
\* another name, and field data); sets: whether it has cell sets
MeshioMesh(keys, onboundary, tc, sets) ==
    LET cells == SeqGen(Len(keys), LAMBDA i :
                     [type |-> keys[i], data |-> BlockData(keys[i], onboundary)])
    IN  [points     |-> MeshioPoints,
         cells      |-> cells,
         cell_sets  |-> IF sets
                        THEN [n \in {"inner", "outer"} |->
                                 IF n = "inner" THEN [k \in {keys[1]} |-> <<0>>]
                                 ELSE [k \in {keys[Len(keys)]} |-> <<0>>]]
                        ELSE <<>>,
         cell_data  |-> IF tc = "none" THEN <<>>
                        ELSE [key \in {IF tc = "other" THEN <<"other">> ELSE physical} |->
                                 [k \in Range(keys) |->
                                     BlockTags(FirstIndex(keys, k) + 1,
                                               Len(BlockData(k, onboundary)))]],
         field_data |-> IF tc \in {"physical", "other"} THEN FieldData ELSE <<>>]

\* the mesh cls(p, tt) with nb of the named boundaries "wall" (the first
\* facet of B) and "rim" (B) and ns of the named subdomains "core" (element
\* 0) and "all" (E)
NamedMesh(c, p, tt, B, E, nb, ns) ==
    Construct(c, p, tt,
              CASE nb = 0 -> <<>>
                [] nb = 1 -> << [n \in {"wall"} |-> <<B[1]>>] >>
                [] nb = 2 -> << [n \in {"wall", "rim"} |->
                                   IF n = "wall" THEN <<B[1]>> ELSE B] >>,
              CASE ns = 0 -> <<>>
                [] ns = 1 -> << [n \in {"core"} |-> <<0>>] >>
                [] ns = 2 -> << [n \in {"core", "all"} |->
                                   IF n = "core" THEN <<0>> ELSE E] >>)

\* a mesh of the class of the first-order type k on the cells of that type,
\* with nb named boundaries (of boundary facets) and ns named subdomains
SourceMesh(k, nb, ns) ==
    LET c  == MESH_TYPE_MAPPING(k)
        p  == FromCols(strip_extra_coordinates(c, CubePoints), class_dim(c))
        tt == FromCols(BlockData(k, TRUE), Len(BlockData(k, TRUE)[1]))
    IN  NamedMesh(c, p, tt,
                  boundary_facets(f2t_of(Construct(c, p, tt, <<>>, <<>>))),
                  SeqGen(Len(BlockData(k, TRUE)), LAMBDA e : e - 1),
                  nb, ns)

\* the reference coordinates of the local degrees of freedom of an element,
\* doubled: elem.doflocs
elem_doflocs(e) ==
    CASE e = "ElementTriP2" ->
            << <<0, 0>>, <<2, 0>>, <<0, 2>>, <<1, 0>>, <<1, 1>>, <<0, 1>> >>
      [] e = "ElementTetP2" ->
            << <<0, 0, 0>>, <<2, 0, 0>>, <<0, 2, 0>>, <<0, 0, 2>>, <<1, 0, 0>>,
               <<1, 1, 0>>, <<0, 1, 0>>, <<0, 0, 1>>, <<1, 0, 1>>, <<0, 1, 1>> >>
      [] e = "ElementQuad2" ->
            << <<0, 0>>, <<2, 0>>, <<2, 2>>, <<0, 2>>, <<1, 0>>, <<2, 1>>,
               <<1, 2>>, <<0, 1>>, <<1, 1>> >>

\* four times the value, at the doubled reference point X, of the shape
\* function of the local vertex i (1-based) that the reference mapping of a
\* first-order mesh uses
shape(rd, i, X) ==
    CASE rd = "tri"  -> IF i = 1 THEN 2 * (2 - X[1] - X[2]) ELSE 2 * X[i - 1]
      [] rd = "tet"  -> IF i = 1 THEN 2 * (2 - X[1] - X[2] - X[3]) ELSE 2 * X[i - 1]
      [] rd = "quad" -> CASE i = 1 -> (2 - X[1]) * (2 - X[2])
                          [] i = 2 -> X[1] * (2 - X[2])
                          [] i = 3 -> X[1] * X[2]
                          [] i = 4 -> (2 - X[1]) * X[2]

\* mesh._mapping().F at the doubled reference point X in the element e
\* (1-based)
mapping_F(mesh, X, e) ==
    SeqGen(NRows(mesh.doflocs), LAMBDA d :
        LET RECURSIVE S(_)
            S(i) == IF i = 0 THEN 0
                    ELSE S(i - 1) + shape(elem_refdom(mesh.elem), i, X)
                                        * mesh.doflocs[d][mesh.t[i][e] + 1]
        IN  S(NRows(mesh.t)) \div 4)

\* the doflocs of from_mesh: dofs.N columns of zeros, the column of every
\* degree of freedom then set to its mapped location; of the assignments to
\* one column the one of the last local index and last element stands
from_mesh_doflocs(mesh, el, ed) ==
    FromCols(SeqGen(SetMax(UNION {Range(ed[j]) : j \in 1..NRows(ed)}) + 1, LAMBDA g :
                 LET W == {w \in (1..NRows(ed)) \X (1..NCols(ed)) : ed[w[1]][w[2]] = g - 1}
                 IN  IF W = {} THEN SeqGen(NRows(mesh.doflocs), LAMBDA d : 0)
                     ELSE LET w == CHOOSE x \in W : \A y \in W :
                                       \/ y[1] < x[1]
                                       \/ y[1] = x[1] /\ y[2] <= x[2]
                          IN  mapping_F(mesh, elem_doflocs(el)[w[1]], w[2])),
             NRows(mesh.doflocs))

\* cls.from_mesh(mesh): the mesh of class c on the connectivity of mesh
from_mesh(c, mesh) ==
    Construct(c,
              from_mesh_doflocs(mesh, ClassDefaults(c).elem,
                                element_dofs([mesh EXCEPT !.elem = ClassDefaults(c).elem])),
              mesh.t, <<>>, <<>>)

\* the first-order cell type on whose cells a mesh of the type k is built
VertexType(k) ==
    CASE k = "triangle6" -> "triangle"
      [] k = "tetra10"   -> "tetra"
      [] k = "quad9"     -> "quad"
      [] OTHER           -> k

\* p with one more column, the location of a node no element refers to
WithSpareNode(p) == SeqGen(NRows(p), LAMBDA d : Append(p[d], 1))

\* the mesh handed to to_meshio: of a first-order type the mesh on the cells
\* of that type, of a second-order type from_mesh of that mesh; with nb
\* named boundaries and ns named subdomains; spare adds to doflocs a node
\* that no element refers to
ExportedMesh(k, nb, ns, spare) ==
    LET c  == MESH_TYPE_MAPPING(k)
        m1 == SourceMesh(VertexType(k), 0, 0)
        p  == IF k = VertexType(k) THEN m1.doflocs ELSE from_mesh(c, m1).doflocs
    IN  NamedMesh(c, IF spare THEN WithSpareNode(p) ELSE p, m1.t,
                  boundary_facets(f2t_of(m1)),
                  SeqGen(NCols(m1.t), LAMBDA e : e - 1),
                  nb, ns)

\* either a meshio object is imported, or a mesh is exported and imported
\* again
InitIO ==
    /\ \/ /\ src = <<>>
          /\ \E keys \in KeySequences, onboundary \in BOOLEAN,
                tc \in {"none", "physical", "nofields", "other"}, sets \in BOOLEAN :
                mio = MeshioMesh(keys, onboundary, tc, sets)
          /\ iopc = "call"
       \/ /\ \E k \in Supported3D \cup Supported2D \cup {"line"}, nb \in 0..2, ns \in 0..2,
                spare \in BOOLEAN :
                src = ExportedMesh(k, nb, ns, spare)
          /\ mio = <<>>
          /\ iopc = "export"
    /\ imp = <<>>
    /\ OpsIdle
    /\ MeshIdle
    /\ AsmIdle

\* mio = to_meshio(src)
ToMeshio ==
    /\ iopc = "export"
    /\ mio' = to_meshio(src)
    /\ iopc' = "call"
    /\ UNCHANGED <<src, imp, opvars, meshvars, asmvars>>

\* from_meshio(mio), lines 10-28: the cell type is selected, or
\* NotImplementedError is raised
SelectType ==
    /\ iopc = "call"
    /\ IF meshio_type(cells_keys(mio)) = "None"
       THEN /\ imp' = [exc |-> "NotImplementedError"]
            /\ iopc' = "raised"
       ELSE /\ imp' = [meshio_type |-> meshio_type(cells_keys(mio))]
            /\ iopc' = "typed"
    /\ UNCHANGED <<src, mio, opvars, meshvars, asmvars>>

\* from_meshio(mio), lines 29-77: the mesh is returned, or its construction
\* at line 39 raises
Build ==
    /\ iopc = "typed"
    /\ imp' = from_meshio_build(mio, imp.meshio_type)
    /\ iopc' = IF "exc" \in DOMAIN imp' THEN "failed" ELSE "returned"
    /\ UNCHANGED <<src, mio, opvars, meshvars, asmvars>>

NextIO == ToMeshio \/ SelectType \/ Build

SpecIO == InitIO /\ [][NextIO]_vars


-----------------------------------------------------------------------------
(* Properties of import and export *)

\* the positions of the keys of the cell dictionary that are in S
KeyPositions(S) == {i \in 1..Len(mio.cells) : mio.cells[i].type \in S}

\* the type the dimension priority gives: the first three-dimensional key,
\* else the first two-dimensional key, else 'line', else none
PriorityType ==
    IF KeyPositions(Supported3D) # {}
    THEN mio.cells[SetMin(KeyPositions(Supported3D))].type
    ELSE IF KeyPositions(Supported2D) # {}
    THEN mio.cells[SetMin(KeyPositions(Supported2D))].type
    ELSE IF KeyPositions({"line"}) # {} THEN "line"
    ELSE "None"

\* C15: from_meshio imports the first three-dimensional cell type of the cell
\* dictionary if there is one, else the first two-dimensional one, else
\* 'line'; it raises NotImplementedError if and only if the dictionary holds
\* none of these types, and then constructs no mesh.
C15_TypeByDimensionPriority ==
    iopc \in {"typed", "returned", "raised"} =>
        /\ iopc = "raised" <=> PriorityType = "None"
        /\ iopc = "raised" => imp = [exc |-> "NotImplementedError"]
        /\ iopc # "raised" => imp.meshio_type = PriorityType
        /\ iopc = "returned" => imp.mesh.cls = MESH_TYPE_MAPPING(PriorityType)

\* a triangle block followed by a tetra block was imported as a tetrahedral
\* mesh
C15_Witness ==
    /\ iopc = "returned"
    /\ cells_keys(mio) = <<"triangle", "tetra">>
    /\ imp.mesh.cls = "MeshTet1"


\* from_meshio returned after an exception ended its try block
TagImportFailed == iopc = "returned" /\ imp.entered /\ imp.tagexc # "none"

\* C16: when the extraction of the physical tags fails, at whatever point of
\* the try block, the import still returns, and the named boundaries and
\* subdomains of the mesh returned are those of before the block (none when
\* there were none): no name derived from the tags remains.
C16_FailedTagsLeaveNoNames ==
    TagImportFailed =>
        /\ imp.mesh._boundaries = NoneIfEmpty(imp.before.boundaries)
        /\ imp.mesh._subdomains = NoneIfEmpty(imp.before.subdomains)

\* what holds of the code: a failed block leaves the boundaries as they were;
\* the subdomains are as they were only if the block failed at its first
\* statement (line 46), and otherwise are the ones derived from the tags of
\* the elements, the ones of before the block being dropped
FailedTagsKeepSubdomainTags ==
    TagImportFailed =>
        /\ imp.mesh._boundaries = NoneIfEmpty(imp.before.boundaries)
        /\ imp.tagexc = "KeyError" =>
              imp.mesh._subdomains = NoneIfEmpty(imp.before.subdomains)
        /\ imp.tagexc # "KeyError" =>
              /\ imp.mesh._subdomains # <<>>
              /\ imp.mesh._subdomains[1]
                    = tag_sets(mio.field_data, mio.cell_data[physical][imp.meshio_type],
                               SeqGen(Len(mio.cell_data[physical][imp.meshio_type]),
                                      LAMBDA e : e - 1))

\* only triangles carry physical tags (there is no block of lines): the block
\* fails at line 61, and the mesh returned has the subdomains "a" and "b" of
\* the tags instead of the subdomain "inner" of the cell sets
TagNamesAfterFailure ==
    /\ TagImportFailed
    /\ cells_keys(mio) = <<"triangle">>
    /\ imp.tagexc = "UnboundLocalError"
    /\ DOMAIN imp.before.subdomains = {"inner", "outer"}
    /\ DOMAIN imp.mesh._subdomains[1] = {"a", "b"}

\* the block failed at its end (no tagged line lies on the boundary) and at
\* its first statement
TagImportFailedLate == TagImportFailed /\ imp.tagexc = "IndexError"

TagImportFailedFirst == TagImportFailed /\ imp.tagexc = "KeyError"

\* the block ran to its end and named boundaries and subdomains by the tags
TagImportSucceeded ==
    /\ iopc = "returned"
    /\ imp.entered
    /\ imp.tagexc = "none"
    /\ imp.mesh._boundaries # <<>>
    /\ imp.mesh._subdomains # <<>>


\* a mesh was exported by to_meshio and imported again by from_meshio
RoundTripped == src # <<>> /\ iopc = "returned"

\* the optional dicts a and b hold the same names with the same members
SameNamedSets(a, b) ==
    /\ a = <<>> <=> b = <<>>
    /\ a # <<>> =>
          /\ DOMAIN a[1] = DOMAIN b[1]
          /\ \A n \in DOMAIN a[1] : Range(a[1][n]) = Range(b[1][n])

\* C14: for every supported mesh type, from_meshio(to_meshio(m)) has as many
\* nodes and as many elements as m and the same named boundaries and named
\* subdomains: the same names with the same member indices.
C14_RoundTrip ==
    RoundTripped =>
        /\ imp.mesh.cls = src.cls
        /\ NCols(imp.mesh.doflocs) = NCols(src.doflocs)
        /\ nelements(imp.mesh) = nelements(src)
        /\ SameNamedSets(imp.mesh._boundaries, src._boundaries)
        /\ SameNamedSets(imp.mesh._subdomains, src._subdomains)

\* the element of the mesh has degrees of freedom besides the nodal ones
SecondOrder(m) == dof_counts(m.elem) # dof_counts("ElementTriP1")

\* every column of doflocs is the node of a degree of freedom of the mesh
NodesAreDofs(m) ==
    NCols(m.doflocs)
        = SetMax(UNION {Range(element_dofs(m)[j]) : j \in 1..NRows(element_dofs(m))}) + 1

\* what holds of the code: the counts and the named sets are those of m for
\* every first-order mesh, whatever nodes it has, and for a second-order mesh
\* all of whose nodes are degrees of freedom
RoundTripKeepsCountsUnlessSpare ==
    (RoundTripped /\ (SecondOrder(src) => NodesAreDofs(src))) =>
        /\ imp.mesh.cls = src.cls
        /\ NCols(imp.mesh.doflocs) = NCols(src.doflocs)
        /\ nelements(imp.mesh) = nelements(src)
        /\ SameNamedSets(imp.mesh._boundaries, src._boundaries)
        /\ SameNamedSets(imp.mesh._subdomains, src._subdomains)

\* twice the default doflocs of MeshTri2: the four vertices of the unit
\* square, then the midpoints of the five edges
MeshTri2Doflocs ==
    << <<0, 2, 0, 2, 1, 0, 1, 2, 1>>,
       <<0, 0, 2, 2, 0, 1, 1, 1, 2>> >>

\* from_mesh on the two triangles of the unit square numbers and places the
\* nodes as the default doflocs of MeshTri2 list them
FromMeshGivesDefaultNodes ==
    ExportedMesh("triangle6", 0, 0, FALSE).doflocs = MeshTri2Doflocs

\* the import of an exported mesh returns
RoundTripReturns == (src # <<>> /\ iopc \in {"returned", "failed"}) => iopc = "returned"

\* the round trip of a first-order mesh gives back the coordinates and the
\* connectivity as well, the node order of a hexahedron included
RoundTripKeepsArrays ==
    (RoundTripped /\ ~SecondOrder(src)) =>
        /\ imp.mesh.doflocs = src.doflocs
        /\ imp.mesh.t = src.t

\* a second-order triangular mesh with a node that no element refers to went
\* through the round trip: the mesh returned has one node less, and the
\* elements and the named sets of the original
SpareNodeDropped ==
    /\ RoundTripped
    /\ src.cls = "MeshTri2"
    /\ src._boundaries # <<>>
    /\ ~NodesAreDofs(src)
    /\ NCols(imp.mesh.doflocs) = NCols(src.doflocs) - 1
    /\ nelements(imp.mesh) = nelements(src)
    /\ SameNamedSets(imp.mesh._boundaries, src._boundaries)
    /\ SameNamedSets(imp.mesh._subdomains, src._subdomains)

\* a second-order tetrahedral mesh all of whose nodes are degrees of freedom
\* went through the round trip: the vertices were renumbered, the counts and
\* the named sets are the original ones
RoundTrippedSecondOrder ==
    /\ RoundTripped
    /\ src.cls = "MeshTet2"
    /\ NodesAreDofs(src)
    /\ src._boundaries # <<>>
    /\ DOMAIN src._boundaries[1] = {"wall", "rim"}
    /\ imp.mesh.t # src.t
    /\ NCols(imp.mesh.doflocs) = NCols(src.doflocs)

\* the construction of the mesh of an imported tetra10 or quad9 block raised
ImportFailed ==
    /\ src = <<>>
    /\ iopc = "failed"
    /\ imp.exc = "IndexError"

\* a triangle6, a tetra10 and a quad9 block were imported
ImportedSecondOrder ==
    /\ src = <<>>
    /\ iopc = "returned"
    /\ imp.meshio_type \in {"triangle6", "tetra10", "quad9"}
    /\ NRows(imp.mesh.t) = refdom_nnodes(elem_refdom(imp.mesh.elem))

\* a first-order triangular mesh of two elements with two named boundaries
\* and two named subdomains went through the round trip
RoundTrippedFirstOrder ==
    /\ RoundTripped
    /\ src.cls = "MeshTri1"
    /\ nelements(src) = 2
    /\ src._boundaries # <<>>
    /\ src._subdomains # <<>>
    /\ DOMAIN src._boundaries[1] = {"wall", "rim"}
    /\ DOMAIN src._subdomains[1] = {"core", "all"}
    /\ DOMAIN mio.cell_data # {}

\* a hexahedral mesh went through the round trip
RoundTrippedHex == RoundTripped /\ src.cls = "MeshHex1" /\ src._boundaries # <<>>

-----------------------------------------------------------------------------
(* The mass matrix of the P1 element: InteriorBasis(MeshTri(),              *)
(* ElementTriP1()) handed to BilinearForm(lambda u, v, _: u * v).assemble.  *)
(* Reference coordinates and basis values are kept in sixths and the        *)
(* quadrature weights in sixths, so that an assembled entry is a multiple   *)
(* of 1/216.                                                                 *)

MaxScale == 2

\* the default MeshTri: the unit square split into the triangles (0, 1, 2)
\* and (1, 2, 3)
DefaultMeshTri ==
    Construct("MeshTri1",
              << <<0, 1, 0, 1>>,
                 <<0, 0, 1, 1>> >>,
              << <<0, 1>>,
                 <<1, 2>>,
                 <<2, 3>> >>, 0, 0)

\* the three-point rules of degree two on the reference triangle: the points
\* X (in sixths) and the weights W (in sixths)
QuadratureRules == {"interior", "midpoint"}

get_quadrature(rule) ==
    CASE rule = "interior" -> [X |-> << <<1, 1>>, <<4, 1>>, <<1, 4>> >>, W |-> <<1, 1, 1>>]
      [] rule = "midpoint" -> [X |-> << <<3, 0>>, <<3, 3>>, <<0, 3>> >>, W |-> <<1, 1, 1>>]

\* ElementTriP1.lbasis(X, i): 1 - x - y, x, y (in sixths)
lbasis(X, i) ==
    CASE i = 0 -> 6 - X[1] - X[2]
      [] i = 1 -> X[1]
      [] i = 2 -> X[2]

\* the determinant of the Jacobian of the affine map of the element e
\* (1-based) of a triangular mesh
detDF(mesh, e) ==
    LET a == NodeCoords(mesh, 1, e)
        b == NodeCoords(mesh, 2, e)
        c == NodeCoords(mesh, 3, e)
    IN  (b[1] - a[1]) * (c[2] - a[2]) - (c[1] - a[1]) * (b[2] - a[2])

\* InteriorBasis(mesh, ElementTriP1()) with the given quadrature rule: the
\* fields _assemble reads, and the mesh the basis refers to
InteriorBasis(mesh, rule) ==
    LET quad == get_quadrature(rule)
        nt == nelements(mesh)
        nq == Len(quad.W)
    IN  [Nbfun        |-> 3,
         nelems       |-> nt,
         nqp          |-> nq,
         N            |-> nvertices(mesh),
         element_dofs |-> element_dofs(mesh),
         basis        |-> SeqGen(3, LAMBDA i : SeqGen(nt, LAMBDA e :
                            SeqGen(nq, LAMBDA q : lbasis(quad.X[q], i - 1)))),
         dx           |-> SeqGen(nt, LAMBDA e : SeqGen(nq, LAMBDA q :
                            Abs(detDF(mesh, e)) * quad.W[q])),
         mesh         |-> mesh]

\* the default mesh, and the default mesh scaled along the axes
MassMeshes ==
    {DefaultMeshTri} \cup
    {scaled(DefaultMeshTri, [type |-> "tuple", v |-> <<a, b>>]) :
        a \in 1..MaxScale, b \in 1..MaxScale}

\* a call BilinearForm(lambda u, v, _: u * v).assemble(basis) begins
InitMass ==
    /\ MeshIdle
    /\ LibIdle
    /\ \E mesh \in MassMeshes : \E rule \in QuadratureRules :
          ubasis = InteriorBasis(mesh, rule)
    /\ vbasis = <<>>
    /\ nthreads \in 0..MaxThreads
    /\ form = [expr |-> "mass", bad |-> {}]
    /\ pc = "call"
    /\ exc = "none"
    /\ data = <<>>
    /\ rows = <<>>
    /\ cols = <<>>
    /\ threads = <<>>
    /\ started = 0
    /\ joined = 0
    /\ result = <<>>
    /\ matrix = <<>>
    /\ nevals = 0
    /\ wlog = <<>>

SpecMass == InitMass /\ [][NextAsm]_vars

\* 24 times the mass matrix of the docstring of BilinearForm
ReferenceMass ==
    << <<2, 1, 1, 0>>,
       <<1, 4, 2, 1>>,
       <<1, 2, 4, 1>>,
       <<0, 1, 1, 2>> >>

\* c * A
Times(c, A) == SeqGen(Len(A), LAMBDA r : SeqGen(Len(A[r]), LAMBDA k : c * A[r][k]))

IsSymmetric(A) ==
    \A r \in 1..Len(A) : \A k \in 1..Len(A[r]) : Len(A) = Len(A[r]) /\ A[r][k] = A[k][r]

\* the sum of all entries of A
SumAll(A) == SumSeq(SeqGen(Len(A), LAMBDA r : SumSeq(A[r])))

\* twice the area a triangular mesh covers
TwiceArea(mesh) == SumSeq(SeqGen(nelements(mesh), LAMBDA e : Abs(detDF(mesh, e))))

MassAssembled == pc = "assembled" /\ "mesh" \in DOMAIN ubasis

\* C18: the assembled mass matrix of the P1 element on the default
\* two-triangle mesh of the unit square is (1/24) * [[2,1,1,0], [1,4,2,1],
\* [1,2,4,1], [0,1,1,2]] (here in units of 1/216, nine times the integer
\* matrix); on every mesh the matrix is symmetric and its entries sum to the
\* area of the meshed domain
C18_MassMatrix ==
    MassAssembled =>
        /\ ubasis.mesh = DefaultMeshTri => matrix = Times(9, ReferenceMass)
        /\ IsSymmetric(matrix)
        /\ 2 * SumAll(matrix) = 216 * TwiceArea(ubasis.mesh)

\* the default mesh assembled by worker threads
C18_Witness ==
    /\ MassAssembled
    /\ ubasis.mesh = DefaultMeshTri
    /\ nthreads > 1
    /\ matrix[2] = <<9, 36, 18, 9>>
    /\ SumAll(matrix) = 216

\* a scaled mesh assembled by the sequential loop
C18_WitnessScaled ==
    /\ MassAssembled
    /\ TwiceArea(ubasis.mesh) = 4
    /\ nthreads = 0
    /\ SumAll(matrix) = 432

-----------------------------------------------------------------------------
(* Named sets as tags of the instance that carries them *)

\* the named boundaries and the named subdomains of an instance
BoundariesOf(m) == DictOrEmpty(m._boundaries)

SubdomainsOf(m) == DictOrEmpty(m._subdomains)

\* every index of a named subdomain is an element index of m and every index
\* of a named boundary is a facet index of m
ValidNamedSets(m) ==
    /\ \A n \in DOMAIN SubdomainsOf(m) : \A i \in Range(SubdomainsOf(m)[n]) :
          0 <= i /\ i < nelements(m)
    /\ \A n \in DOMAIN BoundariesOf(m) : \A i \in Range(BoundariesOf(m)[n]) :
          0 <= i /\ i < NCols(facets_of(m))

\* the coordinates of the nodes of the column i (0-based) of the index array A
NodePoints(m, A, i) == {Col(m.doflocs, v) : v \in Range(Col(A, i))}

\* the operations that keep the geometry, and those that move every node
TagOperations ==
    {"with_boundaries", "with_subdomains", "scaled", "translated", "mirrored",
     "remove_elements", "join"}

MovesNodes == call.op \in {"scaled", "translated", "mirrored"}

\* the names of the result r that the operand m already carried, not defined
\* anew by the call
KeptNames(old, kind) ==
    IF call.op = kind THEN DOMAIN old \ DOMAIN call.arg ELSE DOMAIN old

\* a kept name lists in r what it listed in m, and every index listed is in
\* r the element (facet) it was in m: the same nodes where the call moves the
\* nodes, the same points where it keeps the geometry
SameDenotation(m, r) ==
    /\ \A n \in KeptNames(SubdomainsOf(m), "with_subdomains") \cap DOMAIN SubdomainsOf(r) :
          /\ SubdomainsOf(r)[n] = SubdomainsOf(m)[n]
          /\ \A i \in Range(SubdomainsOf(r)[n]) :
                IF MovesNodes THEN Col(r.t, i) = Col(m.t, i)
                ELSE NodePoints(r, r.t, i) = NodePoints(m, m.t, i)
    /\ \A n \in KeptNames(BoundariesOf(m), "with_boundaries") \cap DOMAIN BoundariesOf(r) :
          /\ BoundariesOf(r)[n] = BoundariesOf(m)[n]
          /\ \A i \in Range(BoundariesOf(r)[n]) :
                IF MovesNodes THEN Col(facets_of(r), i) = Col(facets_of(m), i)
                ELSE NodePoints(r, facets_of(r), i) = NodePoints(m, facets_of(m), i)

\* the last call was one of the operations, on operand(s) with valid named
\* sets, and returned an instance
TagCallReturned ==
    /\ call.op \in TagOperations
    /\ call.exc = "none"
    /\ \A i \in Operands : ValidNamedSets(call.pre.meshes[i])

\* C21: an instance returned by with_boundaries, with_subdomains, scaled,
\* translated, mirrored, remove_elements or join on instances with valid
\* named sets has valid named sets, every index of a named subdomain an
\* element index and every index of a named boundary a facet index of the
\* instance returned, denoting the element or facet it denoted in the operand
C21_NamedSetsStayValid ==
    TagCallReturned =>
        /\ ValidNamedSets(meshes[call.ret])
        /\ SameDenotation(call.pre.meshes[call.self], meshes[call.ret])

\* the same for every operation but remove_elements
NamedSetsStayValidUnlessRemoved ==
    (TagCallReturned /\ call.op # "remove_elements") =>
        /\ ValidNamedSets(meshes[call.ret])
        /\ SameDenotation(call.pre.meshes[call.self], meshes[call.ret])

\* remove_elements returned an instance whose named subdomain lists an index
\* that is not an element of it
StaleSubdomainIndex ==
    /\ call.op = "remove_elements"
    /\ call.exc = "none"
    /\ ValidNamedSets(call.pre.meshes[call.self])
    /\ \E n \in DOMAIN SubdomainsOf(meshes[call.ret]) :
       \E i \in Range(SubdomainsOf(meshes[call.ret])[n]) : i >= nelements(meshes[call.ret])

\* remove_elements returned an instance whose named boundary lists an index
\* in range that is another facet than the one it was in the operand
StaleBoundaryFacet ==
    /\ call.op = "remove_elements"
    /\ call.exc = "none"
    /\ ValidNamedSets(call.pre.meshes[call.self])
    /\ ValidNamedSets(meshes[call.ret])
    /\ ~SameDenotation(call.pre.meshes[call.self], meshes[call.ret])

\* a transformation kept a named set, and with_boundaries kept one name while
\* defining another
NamedSetKept ==
    /\ TagCallReturned
    /\ call.op = "with_boundaries"
    /\ "left" \in KeptNames(BoundariesOf(call.pre.meshes[call.self]), "with_boundaries")
    /\ "right" \in DOMAIN BoundariesOf(meshes[call.ret])
    /\ BoundariesOf(meshes[call.ret])["left"] = <<nelements(meshes[call.ret])>>

-----------------------------------------------------------------------------
(* build_entities and the order of the elements *)

\* A[:, pi]: the columns of A in the order pi
PermuteCols(A, pi) == SeqGen(NRows(A), LAMBDA r : SeqGen(NCols(A), LAMBDA c : A[r][pi[c]]))

\* the node tuples of the local facets in scan order: facet template major,
\* element minor
FacetScan == indexing_cols(t, refdom_facets(elem))

\* the facets of a mesh are read, through either property, and nothing else
NextFacets == GetFacets \/ GetT2f

SpecFacets == InitMesh /\ [][NextFacets]_vars

\* C22: the facets built with sort=True do not depend on the order of the
\* elements: for every permutation of the columns of t the same facet array
\* results, the distinct sorted node tuples in ascending lexicographic order,
\* and the columns of t2f are permuted as the elements.  With sort=False the
\* map is the same and facet f is the node tuple, as the element lists it, of
\* the first occurrence of f in scan order, a permutation of the sorted tuple.
C22_EntitiesIndependentOfElementOrder ==
    hasattr(_facets) =>
        LET unsorted == build_entities(t, refdom_facets(elem), FALSE)
            scan     == FacetScan
            flat     == flatten_C(_t2f)
        IN  /\ \A pi \in Permutations(1..NCols(t)) :
                  build_entities(PermuteCols(t, pi), refdom_facets(elem), TRUE)
                      = <<_facets, PermuteCols(_t2f, pi)>>
            /\ Cols(_facets) = SortedSet({np_sort(c) : c \in Range(scan)}, LexLess)
            /\ unsorted[2] = _t2f
            /\ NCols(unsorted[1]) = NCols(_facets)
            /\ \A f \in 0..(NCols(_facets) - 1) :
                  /\ Col(unsorted[1], f) = scan[FirstIndex(flat, f) + 1]
                  /\ np_sort(Col(unsorted[1], f)) = Col(_facets, f)

\* two different elements share a facet that they list with different node
\* orders, the later scanned one ascending, and sort=False returns another
\* array than sort=True
C22_Witness ==
    /\ hasattr(_facets)
    /\ NCols(t) >= 2
    /\ Col(t, 0) # Col(t, 1)
    /\ \E a, b \in 1..Len(FacetScan) :
          /\ a < b
          /\ FacetScan[a] # FacetScan[b]
          /\ np_sort(FacetScan[a]) = FacetScan[b]
    /\ build_entities(t, refdom_facets(elem), FALSE)[1] # _facets
    /\ build_entities(t, refdom_facets(elem), FALSE)[2] = _t2f

-----------------------------------------------------------------------------
(* The node order of a hexahedron on export and on import *)

\* the local node placed at each position by to_meshio (line 85) and by
\* from_meshio (line 32)
HexExportOrder == <<0, 3, 6, 2, 1, 5, 7, 4>>

HexImportOrder == <<0, 4, 3, 1, 7, 5, 2, 6>>

\* to_meshio has produced mio from src
Exported == src # <<>> /\ mio # <<>>

\* from_meshio has returned a mesh built from the cells of its type
Imported == iopc = "returned" /\ "mesh" \in DOMAIN imp

\* C23: to_meshio writes the nodes of a hexahedron in the order
\* [0, 3, 6, 2, 1, 5, 7, 4] and from_meshio reads them in the order
\* [0, 4, 3, 1, 7, 5, 2, 6]; the two are inverse permutations of the eight
\* local nodes, so that a hexahedral connectivity exported and imported again
\* is the original one; the cells of every other type are written as the
\* mesh lists them and handed to the mesh class as the object lists them
\* (the class of a second-order type numbers the vertices by their rank,
\* which keeps the local order)
C23_HexOrdersAreInverse ==
    /\ \A i \in 0..7 : /\ HexExportOrder[HexImportOrder[i + 1] + 1] = i
                       /\ HexImportOrder[HexExportOrder[i + 1] + 1] = i
    /\ Exported =>
          \A e \in 1..nelements(src) : \A i \in 1..NRows(src.t) :
              mio.cells[1].data[e][i]
                  = IF src.cls = "MeshHex1" THEN src.t[HexExportOrder[i] + 1][e]
                    ELSE src.t[i][e]
    /\ Imported =>
          LET cells == cells_dict(mio, imp.meshio_type)
              given == SeqGen(Len(cells[1]), LAMBDA i : SeqGen(Len(cells), LAMBDA e :
                          IF imp.meshio_type = "hexahedron"
                          THEN cells[e][HexImportOrder[i] + 1]
                          ELSE cells[e][i]))
          IN  imp.mesh.t = Construct(imp.mesh.cls, imp.mesh.doflocs, given, <<>>, <<>>).t
    /\ (Exported /\ Imported) =>
          IF SecondOrder(src)
          THEN \A e \in 1..nelements(src) : \A i \in 1..NRows(src.t) :
                  imp.mesh.t[i][e]
                      = Cardinality({v \in UNION {Range(src.t[r]) : r \in 1..NRows(src.t)} :
                                        v < src.t[i][e]})
          ELSE imp.mesh.t = src.t

\* a hexahedron went through the round trip; the exported cell lists its
\* nodes in another order than the mesh
C23_Witness ==
    /\ Exported
    /\ Imported
    /\ src.cls = "MeshHex1"
    /\ imp.mesh.cls = "MeshHex1"
    /\ mio.cells[1].data[1] # Col(src.t, 0)
    /\ Range(mio.cells[1].data[1]) = Range(Col(src.t, 0))
    /\ Cardinality(Range(Col(src.t, 0))) = 8
    /\ imp.mesh.t = src.t

-----------------------------------------------------------------------------
(* Mesh.to_dict and Mesh.from_dict.  A dictionary is a function on its      *)
(* keys; None is <<>> and a dict of named sets d is <<d>>, as in the fields  *)
(* _boundaries and _subdomains of the meshes of this section.  src is the    *)
(* mesh to_dict is called on, mio the dictionary (which from_dict updates    *)
(* in place), imp the class from_dict is called on, the dictionary as it     *)
(* was passed, and the outcome.                                              *)

\* the fields the generated __init__ of a mesh class accepts
InitFields ==
    {"doflocs", "t", "_boundaries", "_subdomains", "elem", "affine", "validate", "sort_t"}

\* data after data[k] = v
dict_set(dct, k, v) == [x \in DOMAIN dct \cup {k} |-> IF x = k THEN v ELSE dct[x]]

\* data after data.pop(k)
dict_pop(dct, k) == [x \in DOMAIN dct \ {k} |-> dct[x]]

\* Mesh.to_dict
to_dict(m) ==
    [p          |-> Cols(m.doflocs),
     t          |-> Cols(m.t),
     boundaries |-> m._boundaries,
     subdomains |-> m._subdomains]

\* line 455: cls(**data), which accepts the fields of the dataclass only
from_dict_construct(cls, dct) ==
    IF ~(DOMAIN dct \subseteq InitFields)
    THEN [exc |-> "TypeError", data |-> dct]
    ELSE [exc |-> "none", data |-> dct,
          mesh |-> Construct(cls, dct["doflocs"], dct["t"],
                             dct["_boundaries"], dct["_subdomains"])]

\* line 454: data['_boundaries'] = data.pop('boundaries')
from_dict_boundaries(cls, dct) ==
    IF "boundaries" \notin DOMAIN dct
    THEN [exc |-> "KeyError", data |-> dct]
    ELSE from_dict_construct(cls, dict_set(dict_pop(dct, "boundaries"), "_boundaries",
                                           dct["boundaries"]))

\* line 453: data['_subdomains'] = data.pop('subdomains')
from_dict_subdomains(cls, dct) ==
    IF "subdomains" \notin DOMAIN dct
    THEN [exc |-> "KeyError", data |-> dct]
    ELSE from_dict_boundaries(cls, dict_set(dict_pop(dct, "subdomains"), "_subdomains",
                                            dct["subdomains"]))

\* Mesh.from_dict (lines 439-455): the exception raised ("none" when a mesh
\* is returned), the dictionary as the call leaves it, and the mesh
from_dict(cls, dct) ==
    IF "p" \notin DOMAIN dct \/ "t" \notin DOMAIN dct
    THEN [exc |-> "ValueError", data |-> dct]
    ELSE from_dict_subdomains(cls,
             dict_set(dict_pop(dict_set(dct, "t", FromCols(dct["t"], Len(dct["t"][1]))),
                               "p"),
                      "doflocs", FromCols(dct["p"], Len(dct["p"][1]))))

\* the keys a dictionary passed to from_dict may have
DictKeys == {"p", "t", "boundaries", "subdomains", "name"}

\* the dictionary of the mesh m restricted to the keys K, its named sets
\* replaced by None where nb, ns say so, with the entry 'name' if K has it
DictOf(m, K, nb, ns) ==
    [x \in K |->
        CASE x = "p" -> Cols(m.doflocs)
          [] x = "t" -> Cols(m.t)
          [] x = "boundaries" -> IF nb THEN m._boundaries ELSE <<>>
          [] x = "subdomains" -> IF ns THEN m._subdomains ELSE <<>>
          [] x = "name" -> <<"mesh">>]

\* either to_dict is called on a mesh and from_dict of its class on the
\* result, or from_dict is called on a dictionary with some of the keys
InitDict ==
    /\ \/ /\ \E k \in FirstOrderTypes, nb \in 0..2, ns \in 0..2 :
                /\ src = SourceMesh(k, nb, ns)
                /\ imp = [cls |-> MESH_TYPE_MAPPING(k)]
          /\ mio = <<>>
          /\ iopc = "to_dict"
       \/ /\ src = <<>>
          /\ \E k \in FirstOrderTypes, K \in SUBSET DictKeys, nb \in BOOLEAN, ns \in BOOLEAN :
                /\ mio = DictOf(SourceMesh(k, 1, 1), K, nb, ns)
                /\ imp = [cls |-> MESH_TYPE_MAPPING(k), arg |-> mio]
          /\ iopc = "from_dict"
    /\ OpsIdle
    /\ MeshIdle
    /\ AsmIdle

\* mio = src.to_dict()
ToDict ==
    /\ iopc = "to_dict"
    /\ mio' = to_dict(src)
    /\ imp' = [cls |-> imp.cls, arg |-> mio']
    /\ iopc' = "from_dict"
    /\ UNCHANGED <<src, opvars, meshvars, asmvars>>

\* cls.from_dict(mio)
FromDict ==
    /\ iopc = "from_dict"
    /\ LET r == from_dict(imp.cls, mio)
       IN  /\ mio' = r.data
           /\ imp' = IF r.exc = "none"
                     THEN [cls |-> imp.cls, arg |-> imp.arg, exc |-> "none", mesh |-> r.mesh]
                     ELSE [cls |-> imp.cls, arg |-> imp.arg, exc |-> r.exc]
           /\ iopc' = IF r.exc = "none" THEN "dict_returned" ELSE "dict_raised"
    /\ UNCHANGED <<src, opvars, meshvars, asmvars>>

NextDict == ToDict \/ FromDict

SpecDict == InitDict /\ [][NextDict]_vars

\* from_dict has returned or raised
FromDictDone == iopc \in {"dict_returned", "dict_raised"}

\* the dictionary passed had the keys 'p' and 't'
HadArrays == {"p", "t"} \subseteq DOMAIN imp.arg

\* ValueError is raised exactly when 'p' or 't' is missing
ValueErrorIffNoArrays == FromDictDone => (imp.exc = "ValueError" <=> ~HadArrays)

\* the mesh built from the dictionary of a mesh has its coordinates, its
\* connectivity and its named sets
DictRoundTrip ==
    (FromDictDone /\ src # <<>>) =>
        /\ imp.exc = "none"
        /\ imp.mesh.doflocs = src.doflocs
        /\ imp.mesh.t = src.t
        /\ imp.mesh._boundaries = src._boundaries
        /\ imp.mesh._subdomains = src._subdomains

\* C24: from_dict raises ValueError exactly when the dictionary lacks 'p' or
\* 't' and builds a mesh from every dictionary that has both, 'boundaries'
\* and 'subdomains' being optional; from_dict(to_dict(m)) has the
\* coordinates, the connectivity and the named sets of m
C24_FromDict ==
    /\ ValueErrorIffNoArrays
    /\ (FromDictDone /\ HadArrays /\ DOMAIN imp.arg \subseteq {"p", "t", "boundaries", "subdomains"})
          => /\ imp.exc = "none"
             /\ imp.mesh._boundaries
                   = (IF "boundaries" \in DOMAIN imp.arg THEN imp.arg["boundaries"] ELSE <<>>)
             /\ imp.mesh._subdomains
                   = (IF "subdomains" \in DOMAIN imp.arg THEN imp.arg["subdomains"] ELSE <<>>)
    /\ DictRoundTrip

\* what the code does: ValueError exactly when 'p' or 't' is missing, KeyError
\* when both are there and 'subdomains' or 'boundaries' is missing, a mesh
\* when the four keys and no other are there, and the round trip
FromDictNeedsAllKeys ==
    /\ ValueErrorIffNoArrays
    /\ (FromDictDone /\ HadArrays) =>
          /\ imp.exc = "KeyError" <=> ~({"boundaries", "subdomains"} \subseteq DOMAIN imp.arg)
          /\ imp.exc = "none" <=> DOMAIN imp.arg = {"p", "t", "boundaries", "subdomains"}
    /\ DictRoundTrip

\* a dictionary with 'p' and 't' only was passed and KeyError was raised
FromDictKeyError ==
    /\ FromDictDone
    /\ DOMAIN imp.arg = {"p", "t"}
    /\ imp.exc = "KeyError"
    /\ "doflocs" \in DOMAIN mio

\* the dictionary of a mesh with named sets went through from_dict
DictRoundTripped ==
    /\ iopc = "dict_returned"
    /\ src # <<>>
    /\ src._boundaries # <<>>
    /\ imp.mesh = src

-----------------------------------------------------------------------------
Init == InitMesh \/ InitAsm \/ InitOps \/ InitIO \/ InitMass \/ InitDict

Next == NextMesh \/ NextAsm \/ NextOps \/ NextIO \/ NextDict

Spec == Init /\ [][Next]_vars

====
